---- MODULE Spec2Model ----
(***************************************************************************)
(* A model of the login/register microservices: the user service with its  *)
(* Redis cache-aside handlers (POST /users, GET /users/check-email,        *)
(* GET /users/by-email/:email), the auth service that calls it (register,  *)
(* login), and the monolith controllers (register, login, getUsers) that   *)
(* work on the same User table; the API gateway in front of the services   *)
(* and the auth service's token verification.                              *)
(***************************************************************************)
EXTENDS Integers, Sequences, FiniteSets, Bags, TLC

VARIABLES
    store,          \* the User table: a sequence of rows, row i has id i
    cache,          \* Redis hashes user:email:<email>, with their TTL
    redisUp,        \* whether Redis commands currently succeed
    reqs,           \* the requests in flight: a bag of request records
    response,       \* the response sent by the step just taken, or NoResponse
    requestCount,   \* user service: requests seen by the logging middleware
    cacheHitCount,  \* user service: cache hits counted
    cacheMissCount, \* user service: cache misses counted
    started,        \* history: requests admitted so far
    okCount,        \* history: per email, the 201 responses of create calls
    registered,     \* history: emails whose auth-service register returned 201
    populated,      \* history: per key, how far its population and its TTL have got
    pageCache,      \* Redis strings users:<take>:<cursor>, set by getUsers
    page,           \* the body of the last 200 answer of getUsers
    walk,           \* a client walking the listing page by page
    gwBuild,        \* which gateway runs: services/api-gateway or the Railway one
    gwHits,         \* gateway rate limiter: hits of the client in this window
    gwReqs,         \* gateway: the requests waiting for an upstream, a bag
    gwLast,         \* gateway: the response sent by the step just taken
    gwStarted,      \* history: requests the gateway has received
    gwPassed,       \* history: requests passed on to a route handler in this window
    now,            \* the clock of the auth service, in hours
    issued,         \* history: the tokens jwt.sign has issued
    verified,       \* the answer of the last POST /verify
    sock,           \* the Redis client's socket: ready, failed, waiting, closed or ended
    retries,        \* the Redis client's count of failed connection attempts
    delay,          \* the delay reconnectStrategy returned last, in ms
    isConnected,    \* redis.js: the flag the connect, error and end events set
    attempts,       \* history: the delay before each reconnect attempt of this outage
    outages,        \* history: connection losses so far
    called,         \* the adapter call just made and its outcome
    proc,           \* the user service process: where its shutdown has got to
    dbOpen,         \* whether the Prisma connection is open
    file,           \* seeder: the progress file seed-progress.json, or NoFile
    progress,       \* seeder: this.progress
    stats,          \* seeder: this.stats
    seeder,         \* seeder: where the process is: off, loop, round, saved, done, stopped
    currentBatch,   \* seeder: the local currentBatch of run()
    pending,        \* seeder: the batches of the round whose createMany is outstanding
    runs,           \* history: how often the seeder was started
    failed,         \* history: whether a batch insert has failed
    resumedFrom,    \* history: the lastBatchId the current run has started from
    limHits,        \* gateway limiter: the hits it counts per key (req.ip) in this window
    authHits,       \* auth service limiter: the hits it counts per key in this window
    sent,           \* history: the requests each client has sent in this window
    limStarted,     \* history: requests sent to the limiters in this behaviour
    limLast         \* the answer to the request just sent through the limiters

svcVars == <<store, cache, redisUp, reqs, response, requestCount, cacheHitCount,
             cacheMissCount, started, okCount, registered, populated, pageCache, page,
             walk>>
gwVars == <<gwBuild, gwHits, gwReqs, gwLast, gwStarted, gwPassed>>
tokenVars == <<now, issued, verified>>
procVars == <<sock, retries, delay, isConnected, attempts, outages, called, proc, dbOpen>>
seedVars == <<file, progress, stats, seeder, currentBatch, pending, runs, failed,
              resumedFrom>>
limVars == <<limHits, authHits, sent, limStarted, limLast>>
sideVars == <<procVars, seedVars, limVars>>
edgeVars == <<gwVars, tokenVars, sideVars>>

vars == <<svcVars, gwVars, tokenVars, sideVars>>

dirVars == <<cache, reqs, requestCount, cacheHitCount, cacheMissCount,
             okCount, registered, populated>>
listVars == <<pageCache, page, walk>>

----------------------------------------------------------------------------
(* Bounds of the model *)

MaxRequests == 3    \* requests admitted in one behaviour
MaxInFlight == 2    \* requests in flight at the same time
MaxSeed == 5        \* rows seeded into the table before the listing is walked
MaxTokens == 2      \* tokens issued in one behaviour
MaxClock == 32      \* hours the clock runs
MaxTake == 2        \* largest page size asked for
MaxOutages == 2     \* connection losses of the Redis client in one behaviour
MaxRuns == 3        \* starts of the seeder in one behaviour

\* the seeder's CONFIG, scaled down
TOTAL_USERS == 12
BATCH_SIZE == 2
CONCURRENT_BATCHES == 2
CHECKPOINT_INTERVAL == 4

(* Program constants *)

USER_CACHE_TTL == 60
PAGE_CACHE_TTL == 60
DEFAULT_TAKE == 10
MIN_PASSWORD == 8

----------------------------------------------------------------------------
(* Inputs *)

ValidEmails == {"a@x.com"}
Emails == ValidEmails \cup {"invalid-email"}

PwGood == "Password123!"
PwWrong == "wrongpassword"
PwShort == "short"

\* z.string().email(): the addresses of the model that match zod's pattern
IsEmail(e) == e \in ValidEmails \cup {"user1@company.com", "user2@company.com",
                                      "user3@company.com", "user4@company.com"}

\* bcrypt.hash(password, 10): a 60 character string determined by the password
Hash(p) == "$2b$10$" \o p

\* the length of a string of the model
StrLen(s) ==
    CASE s = PwGood -> 12
      [] s = PwWrong -> 13
      [] s = PwShort -> 5
      [] s = "" -> 0
      [] OTHER -> 60

\* a schema whose minimum is 5
LongEnoughFive(p) == StrLen(p) >= 5

\* z.string().min(8)
LongEnough(p) == StrLen(p) >= MIN_PASSWORD

\* bcrypt.compare(password, hash)
Compare(p, h) == h = Hash(p)

MaxId == MaxSeed + MaxRequests

\* Number -> String, as Redis stores a number given to hSet
NumToStr(n) == ToString(n)
\* parseInt(s, 10) of a string written by NumToStr; NaN is modelled as 0
ParseInt(s) == IF \E n \in 0..MaxId : ToString(n) = s
               THEN CHOOSE n \in 0..MaxId : ToString(n) = s
               ELSE 0
\* Date.toISOString(): the table's createdAt is the row's insertion stamp
ToISOString(d) == "T" \o ToString(d)

\* JSON values of a response body
JNum(n) == <<"number", ToString(n)>>
JStr(s) == <<"string", s>>
JBool(b) == <<"boolean", IF b THEN "true" ELSE "false">>
JNull == <<"null", "">>
Absent == <<"absent", "">>

----------------------------------------------------------------------------
(* The User table (Prisma) *)

Row(id, email, password) ==
    [id |-> id, email |-> email, password |-> password, createdAt |-> id]

NoRow == [id |-> 0, email |-> "", password |-> "", createdAt |-> 0]

\* prisma.user.findUnique({ where: { email } }): the row, or NoRow for null
findUnique(email) ==
    IF \E i \in 1..Len(store) : store[i].email = email
    THEN store[CHOOSE i \in 1..Len(store) : store[i].email = email]
    ELSE NoRow

\* the unique index on User.email: an insert of a present email is rejected
UniqueViolation(email) == \E i \in 1..Len(store) : store[i].email = email

\* prisma.user.create({ data: { email, password } }): the table after the insert
\* (id is the autoincrement key, createdAt the insertion stamp)
userCreate(email, password) ==
    Append(store, Row(Len(store) + 1, email, password))

----------------------------------------------------------------------------
(* The Redis adapter of the user service *)

Key(email) == email      \* `user:email:${email}`, one key per email

NoEntry == [id |-> "", email |-> "", password |-> "", createdAt |-> "", ttl |-> -2]
Null == [isNull |-> TRUE, id |-> "", email |-> "", password |-> "", createdAt |-> ""]

Fields(entry) ==
    [isNull |-> FALSE, id |-> entry.id, email |-> entry.email,
     password |-> entry.password, createdAt |-> entry.createdAt]

\* hGetAll(key): the hash ({} when the key is absent), null when Redis fails
hGetAll(key) == IF redisUp THEN Fields(cache[key]) ELSE Null

\* cachedUser && cachedUser.email
IsHit(cachedUser) == ~cachedUser.isNull /\ cachedUser.email # ""

\* hSet(key, data) when Redis answers: the fields are written, the TTL of an
\* existing key is kept, a new key has none (-1)
hSet(key, data) ==
    [cache EXCEPT ![key] =
        [id |-> data.id, email |-> data.email, password |-> data.password,
         createdAt |-> data.createdAt,
         ttl |-> IF cache[key].ttl = -2 THEN -1 ELSE cache[key].ttl]]

\* an expire that sets no TTL
expireSetsNothing(key, ttl) == cache

\* expire(key, ttl) when Redis answers: no effect on an absent key
expire(key, ttl) ==
    IF cache[key].ttl = -2 THEN cache ELSE [cache EXCEPT ![key].ttl = ttl]

\* the hash written for a full row
FullData(row) ==
    [id |-> NumToStr(row.id), email |-> row.email, password |-> row.password,
     createdAt |-> ToISOString(row.createdAt)]

\* the hash check-email writes: the row was selected with { id, email } only, so
\* user.password || '' and user.createdAt ? ... : '' are both ''
CheckEmailData(row) ==
    [id |-> NumToStr(row.id), email |-> row.email, password |-> "", createdAt |-> ""]

----------------------------------------------------------------------------
(* Responses *)

EmptyBody ==
    [error |-> Absent, message |-> Absent, exists |-> Absent, id |-> Absent,
     email |-> Absent, password |-> Absent, createdAt |-> Absent,
     token |-> Absent, userId |-> Absent]

ErrorBody(msg) == [EmptyBody EXCEPT !.error = JStr(msg)]

NoResponse ==
    [op |-> "none", email |-> "", plain |-> "", status |-> 0, body |-> EmptyBody,
     path |-> ""]

\* jwt.sign({ userId, email }, JWT_SECRET, { expiresIn: '24h' })
Sign(userId, email) == <<"jwt", userId[2], email[2]>>

\* auth service, POST /register: what it answers for the user service's answer
RegisterReply(q, status, body) ==
    IF status = 201
    THEN [status |-> 201,
          body |-> [EmptyBody EXCEPT !.message = JStr("User registered successfully"),
                                     !.token = Sign(body.id, JStr(q.email)),
                                     !.id = body.id, !.email = body.email]]
    ELSE IF status = 409
    THEN [status |-> 409, body |-> ErrorBody("Email already registered")]
    ELSE [status |-> 500, body |-> ErrorBody("Internal server error")]

\* POST /login signing for whatever user the directory returned
LoginReplyUnverified(q, status, body) ==
    IF status = 200
    THEN [status |-> 200,
          body |-> [EmptyBody EXCEPT !.message = JStr("Login successful"),
                                     !.token = Sign(body.id, body.email),
                                     !.id = body.id, !.email = body.email]]
    ELSE IF status = 404
    THEN [status |-> 401, body |-> ErrorBody("Invalid email or password")]
    ELSE [status |-> 500, body |-> ErrorBody("Internal server error")]

\* auth service, POST /login: what it answers for the user service's answer
LoginReply(q, status, body) ==
    IF status = 200
    THEN IF Compare(q.plain, body.password[2])
         THEN [status |-> 200,
               body |-> [EmptyBody EXCEPT !.message = JStr("Login successful"),
                                          !.token = Sign(body.id, body.email),
                                          !.id = body.id, !.email = body.email]]
         ELSE [status |-> 401, body |-> ErrorBody("Invalid email or password")]
    ELSE IF status = 404
    THEN [status |-> 401, body |-> ErrorBody("Invalid email or password")]
    ELSE [status |-> 500, body |-> ErrorBody("Internal server error")]

\* the answer the client gets: the user service's own, or the auth service's
Reply(q, status, body) ==
    IF q.via = "direct" THEN [status |-> status, body |-> body]
    ELSE IF q.op = "create" THEN RegisterReply(q, status, body)
    ELSE LoginReply(q, status, body)

ClientOp(q) ==
    IF q.via = "direct" THEN q.op
    ELSE IF q.op = "create" THEN "register" ELSE "login"

\* path tells how the handler came to answer: "hit" (from the cache), "store"
\* (from the table, cached on the way), "absent", "found", "created", "unique"
\* (the insert was rejected), "cacheError" (hSet or expire threw), "invalid"
Sent(q, status, body, path) ==
    [op |-> ClientOp(q), email |-> q.email, plain |-> q.plain,
     status |-> Reply(q, status, body).status,
     body |-> Reply(q, status, body).body, path |-> path]

\* history kept for the claims: 201 answers of create calls, registered emails
Noted(resp) ==
    /\ okCount' = IF resp.status = 201 /\ resp.op \in {"create", "register", "monoRegister"}
                  THEN [okCount EXCEPT ![resp.email] = @ + 1] ELSE okCount
    /\ registered' = IF resp.status = 201 /\ resp.op = "register"
                     THEN registered \cup {resp.email} ELSE registered

InFlight == BagToSet(reqs)

\* res.status(..).json(..) ends the request q
Respond(q, status, body, path) ==
    /\ response' = Sent(q, status, body, path)
    /\ reqs' = reqs (-) SetToBag({q})
    /\ Noted(Sent(q, status, body, path))

\* the handler of request q goes on to its next await
Goto(q, pc, user) ==
    /\ reqs' = (reqs (-) SetToBag({q})) (+) SetToBag({[q EXCEPT !.pc = pc, !.user = user]})
    /\ response' = NoResponse
    /\ UNCHANGED <<okCount, registered>>

----------------------------------------------------------------------------
(* Validation (zod) *)

\* error.errors.map(e => e.message).join(', ')
ZodMessage(emailOk, passwordOk, passwordMessage) ==
    IF ~emailOk /\ ~passwordOk THEN "Invalid email, " \o passwordMessage
    ELSE IF ~emailOk THEN "Invalid email"
    ELSE passwordMessage

ZOD_MIN == "String must contain at least 8 character(s)"
MONO_MIN == "Password must be at least 8 characters"

\* a request answered on arrival, before any await (validation failed)
Rejected(op, e, p, msg) ==
    /\ response' = [op |-> op, email |-> e, plain |-> p, status |-> 400,
                    body |-> ErrorBody(msg), path |-> "invalid"]
    /\ UNCHANGED <<reqs, okCount, registered>>

\* a request that passed validation and waits for its first await
Admitted(op, via, e, password, plain, pc) ==
    /\ reqs' = reqs (+) SetToBag({[pc |-> pc, op |-> op, via |-> via, email |-> e,
                                   password |-> password, plain |-> plain, user |-> 0]})
    /\ response' = NoResponse
    /\ UNCHANGED <<okCount, registered>>

Arrives ==
    /\ BagCardinality(reqs) < MaxInFlight
    /\ started < MaxRequests
    /\ started' = started + 1

At(q, op, pc) == q.op = op /\ q.pc = pc

\* history of a key: "none", then "writing" (hSet done) and "fresh" (expire done:
\* populated); "elapsed" once the TTL has run out since; a key populated again
\* after that is "rewriting" and then "refreshed"
Written(key) ==
    populated' = [populated EXCEPT ![key] =
                     IF @ \in {"elapsed", "rewriting", "refreshed"}
                     THEN "rewriting" ELSE "writing"]
Expiring(key) ==
    populated' = IF cache[key].ttl = -2 THEN populated
                 ELSE [populated EXCEPT ![key] =
                          IF @ \in {"elapsed", "rewriting", "refreshed"}
                          THEN "refreshed" ELSE "fresh"]

InternalError == ErrorBody("Internal server error")

----------------------------------------------------------------------------
(* User service: POST /users *)

PostUsers(e, p) ==
    /\ Arrives
    /\ requestCount' = requestCount + 1
    /\ IF IsEmail(e) /\ LongEnough(p)
       THEN Admitted("create", "direct", e, p, "", "cacheGet")
       ELSE Rejected("create", e, "", ZodMessage(IsEmail(e), LongEnough(p), ZOD_MIN))
    /\ UNCHANGED <<store, cache, redisUp, cacheHitCount, cacheMissCount, populated,
                   pageCache, page, walk>>
    /\ UNCHANGED edgeVars

\* a create that queries the table whatever the cache holds
CreateCacheGetIgnoringHit ==
    \E q \in InFlight :
    /\ At(q, "create", "cacheGet")
    /\ Goto(q, "dbFind", 0)
    /\ UNCHANGED <<store, cache, redisUp, requestCount, cacheHitCount, cacheMissCount,
                   started, populated, pageCache, page, walk>>
    /\ UNCHANGED edgeVars

CreateCacheGet ==
    \E q \in InFlight :
    /\ At(q, "create", "cacheGet")
    /\ IF IsHit(hGetAll(Key(q.email)))
       THEN Respond(q, 409, ErrorBody("Email already registered"), "hit")
       ELSE Goto(q, "dbFind", 0)
    /\ UNCHANGED <<store, cache, redisUp, requestCount, cacheHitCount, cacheMissCount,
                   started, populated, pageCache, page, walk>>
    /\ UNCHANGED edgeVars

CreateDbFind ==
    \E q \in InFlight :
    /\ At(q, "create", "dbFind")
    /\ IF findUnique(q.email) # NoRow
       THEN Goto(q, "hSetOld", findUnique(q.email).id)
       ELSE Goto(q, "dbCreate", 0)
    /\ UNCHANGED <<store, cache, redisUp, requestCount, cacheHitCount, cacheMissCount,
                   started, populated, pageCache, page, walk>>
    /\ UNCHANGED edgeVars

CreateHSetOld ==
    \E q \in InFlight :
    /\ At(q, "create", "hSetOld")
    /\ IF redisUp
       THEN /\ cache' = hSet(Key(q.email), FullData(store[q.user]))
            /\ Written(Key(q.email))
            /\ Goto(q, "expireOld", q.user)
       ELSE /\ Respond(q, 500, InternalError, "cacheError")
            /\ UNCHANGED <<cache, populated>>
    /\ UNCHANGED <<store, redisUp, requestCount, cacheHitCount, cacheMissCount,
                   started, pageCache, page, walk>>
    /\ UNCHANGED edgeVars

CreateExpireOld ==
    \E q \in InFlight :
    /\ At(q, "create", "expireOld")
    /\ IF redisUp
       THEN /\ cache' = expire(Key(q.email), USER_CACHE_TTL)
            /\ Expiring(Key(q.email))
            /\ Respond(q, 409, ErrorBody("Email already registered"), "found")
       ELSE /\ Respond(q, 500, InternalError, "cacheError")
            /\ UNCHANGED <<cache, populated>>
    /\ UNCHANGED <<store, redisUp, requestCount, cacheHitCount, cacheMissCount,
                   started, pageCache, page, walk>>
    /\ UNCHANGED edgeVars

\* a create that treats the rejected insert as done and goes on with the present row
CreateDbInsertIgnoringRejection ==
    \E q \in InFlight :
    /\ At(q, "create", "dbCreate")
    /\ IF UniqueViolation(q.email)
       THEN /\ Goto(q, "hSetNew", findUnique(q.email).id)
            /\ UNCHANGED store
       ELSE /\ store' = userCreate(q.email, q.password)
            /\ Goto(q, "hSetNew", Len(store) + 1)
    /\ UNCHANGED <<cache, redisUp, requestCount, cacheHitCount, cacheMissCount,
                   started, populated, pageCache, page, walk>>
    /\ UNCHANGED edgeVars

CreateDbInsert ==
    \E q \in InFlight :
    /\ At(q, "create", "dbCreate")
    /\ IF UniqueViolation(q.email)
       THEN /\ Respond(q, 500, InternalError, "unique")
            /\ UNCHANGED store
       ELSE /\ store' = userCreate(q.email, q.password)
            /\ Goto(q, "hSetNew", Len(store) + 1)
    /\ UNCHANGED <<cache, redisUp, requestCount, cacheHitCount, cacheMissCount,
                   started, populated, pageCache, page, walk>>
    /\ UNCHANGED edgeVars

CreateHSetNew ==
    \E q \in InFlight :
    /\ At(q, "create", "hSetNew")
    /\ IF redisUp
       THEN /\ cache' = hSet(Key(q.email),
                             [id |-> NumToStr(store[q.user].id),
                              email |-> store[q.user].email,
                              password |-> q.password,
                              createdAt |-> ToISOString(store[q.user].createdAt)])
            /\ Written(Key(q.email))
            /\ Goto(q, "expireNew", q.user)
       ELSE /\ Respond(q, 500, InternalError, "cacheError")
            /\ UNCHANGED <<cache, populated>>
    /\ UNCHANGED <<store, redisUp, requestCount, cacheHitCount, cacheMissCount,
                   started, pageCache, page, walk>>
    /\ UNCHANGED edgeVars

CreateExpireNew ==
    \E q \in InFlight :
    /\ At(q, "create", "expireNew")
    /\ IF redisUp
       THEN /\ cache' = expire(Key(q.email), USER_CACHE_TTL)
            /\ Expiring(Key(q.email))
            /\ Respond(q, 201,
                       [EmptyBody EXCEPT
                           !.id = JNum(store[q.user].id),
                           !.email = JStr(store[q.user].email),
                           !.createdAt = JStr(ToISOString(store[q.user].createdAt))],
                       "created")
       ELSE /\ Respond(q, 500, InternalError, "cacheError")
            /\ UNCHANGED <<cache, populated>>
    /\ UNCHANGED <<store, redisUp, requestCount, cacheHitCount, cacheMissCount,
                   started, pageCache, page, walk>>
    /\ UNCHANGED edgeVars

----------------------------------------------------------------------------
(* User service: GET /users/check-email *)

GetCheckEmail(e) ==
    /\ Arrives
    /\ requestCount' = requestCount + 1
    /\ IF IsEmail(e)
       THEN Admitted("checkEmail", "direct", e, "", "", "cacheGet")
       ELSE Rejected("checkEmail", e, "", "Invalid email")
    /\ UNCHANGED <<store, cache, redisUp, cacheHitCount, cacheMissCount, populated,
                   pageCache, page, walk>>
    /\ UNCHANGED edgeVars

\* res.json({ exists: true, user: cachedUser }): the hash as Redis returned it
CheckEmailHitBody(c) ==
    [EmptyBody EXCEPT !.exists = JBool(TRUE), !.id = JStr(c.id), !.email = JStr(c.email),
                      !.password = JStr(c.password), !.createdAt = JStr(c.createdAt)]

\* res.json({ exists: !!user, user: user || null }) with user = { id, email }
CheckEmailMissBody(row) ==
    IF row = NoRow
    THEN [EmptyBody EXCEPT !.exists = JBool(FALSE), !.id = JNull, !.email = JNull]
    ELSE [EmptyBody EXCEPT !.exists = JBool(TRUE), !.id = JNum(row.id),
                           !.email = JStr(row.email)]

CheckEmailCacheGet ==
    \E q \in InFlight :
    /\ At(q, "checkEmail", "cacheGet")
    /\ IF IsHit(hGetAll(Key(q.email)))
       THEN /\ cacheHitCount' = cacheHitCount + 1
            /\ Respond(q, 200, CheckEmailHitBody(hGetAll(Key(q.email))), "hit")
       ELSE /\ Goto(q, "dbFind", 0)
            /\ UNCHANGED cacheHitCount
    /\ UNCHANGED <<store, cache, redisUp, requestCount, cacheMissCount,
                   started, populated, pageCache, page, walk>>
    /\ UNCHANGED edgeVars

\* a table lookup whose answer for an absent email is not counted as a miss
CheckEmailDbFindUncounted ==
    \E q \in InFlight :
    /\ At(q, "checkEmail", "dbFind")
    /\ IF findUnique(q.email) # NoRow
       THEN Goto(q, "hSet", findUnique(q.email).id)
       ELSE Respond(q, 200, CheckEmailMissBody(NoRow), "absent")
    /\ UNCHANGED <<store, cache, redisUp, requestCount, cacheHitCount, cacheMissCount,
                   started, populated, pageCache, page, walk>>
    /\ UNCHANGED edgeVars

CheckEmailDbFind ==
    \E q \in InFlight :
    /\ At(q, "checkEmail", "dbFind")
    /\ IF findUnique(q.email) # NoRow
       THEN /\ Goto(q, "hSet", findUnique(q.email).id)
            /\ UNCHANGED cacheMissCount
       ELSE /\ cacheMissCount' = cacheMissCount + 1
            /\ Respond(q, 200, CheckEmailMissBody(NoRow), "absent")
    /\ UNCHANGED <<store, cache, redisUp, requestCount, cacheHitCount,
                   started, populated, pageCache, page, walk>>
    /\ UNCHANGED edgeVars

CheckEmailHSet ==
    \E q \in InFlight :
    /\ At(q, "checkEmail", "hSet")
    /\ IF redisUp
       THEN /\ cache' = hSet(Key(q.email), CheckEmailData(store[q.user]))
            /\ Written(Key(q.email))
            /\ Goto(q, "expire", q.user)
       ELSE /\ Respond(q, 500, InternalError, "cacheError")
            /\ UNCHANGED <<cache, populated>>
    /\ UNCHANGED <<store, redisUp, requestCount, cacheHitCount, cacheMissCount,
                   started, pageCache, page, walk>>
    /\ UNCHANGED edgeVars

CheckEmailExpire ==
    \E q \in InFlight :
    /\ At(q, "checkEmail", "expire")
    /\ IF redisUp
       THEN /\ cache' = expire(Key(q.email), USER_CACHE_TTL)
            /\ Expiring(Key(q.email))
            /\ cacheMissCount' = cacheMissCount + 1
            /\ Respond(q, 200, CheckEmailMissBody(store[q.user]), "store")
       ELSE /\ Respond(q, 500, InternalError, "cacheError")
            /\ UNCHANGED <<cache, populated, cacheMissCount>>
    /\ UNCHANGED <<store, redisUp, requestCount, cacheHitCount, started, pageCache, page, walk>>
    /\ UNCHANGED edgeVars

----------------------------------------------------------------------------
(* User service: GET /users/by-email/:email *)

GetByEmail(e) ==
    /\ Arrives
    /\ requestCount' = requestCount + 1
    /\ Admitted("byEmail", "direct", e, "", "", "cacheGet")
    /\ UNCHANGED <<store, cache, redisUp, cacheHitCount, cacheMissCount, populated,
                   pageCache, page, walk>>
    /\ UNCHANGED edgeVars

ByEmailHitBody(c) ==
    [EmptyBody EXCEPT !.id = JNum(ParseInt(c.id)), !.email = JStr(c.email),
                      !.password = JStr(c.password), !.createdAt = JStr(c.createdAt)]

ByEmailMissBody(row) ==
    [EmptyBody EXCEPT !.id = JNum(row.id), !.email = JStr(row.email),
                      !.password = JStr(row.password),
                      !.createdAt = JStr(ToISOString(row.createdAt))]

\* a by-email that queries the table whatever the cache holds
ByEmailCacheGetIgnoringHit ==
    \E q \in InFlight :
    /\ At(q, "byEmail", "cacheGet")
    /\ Goto(q, "dbFind", 0)
    /\ UNCHANGED <<store, cache, redisUp, requestCount, cacheHitCount, cacheMissCount,
                   started, populated, pageCache, page, walk>>
    /\ UNCHANGED edgeVars

ByEmailCacheGet ==
    \E q \in InFlight :
    /\ At(q, "byEmail", "cacheGet")
    /\ IF IsHit(hGetAll(Key(q.email)))
       THEN /\ cacheHitCount' = cacheHitCount + 1
            /\ Respond(q, 200, ByEmailHitBody(hGetAll(Key(q.email))), "hit")
       ELSE /\ Goto(q, "dbFind", 0)
            /\ UNCHANGED cacheHitCount
    /\ UNCHANGED <<store, cache, redisUp, requestCount, cacheMissCount,
                   started, populated, pageCache, page, walk>>
    /\ UNCHANGED edgeVars

\* a by-email that remembers in the cache that an email was not found
ByEmailDbFindCachingAbsent ==
    \E q \in InFlight :
    /\ At(q, "byEmail", "dbFind")
    /\ IF findUnique(q.email) = NoRow
       THEN /\ cacheMissCount' = cacheMissCount + 1
            /\ cache' = IF redisUp
                        THEN hSet(Key(q.email), [id |-> "", email |-> q.email,
                                                 password |-> "", createdAt |-> ""])
                        ELSE cache
            /\ Respond(q, 404, ErrorBody("User not found"), "absent")
       ELSE /\ Goto(q, "hSet", findUnique(q.email).id)
            /\ UNCHANGED <<cacheMissCount, cache>>
    /\ UNCHANGED <<store, redisUp, requestCount, cacheHitCount,
                   started, populated, pageCache, page, walk>>
    /\ UNCHANGED edgeVars

ByEmailDbFind ==
    \E q \in InFlight :
    /\ At(q, "byEmail", "dbFind")
    /\ IF findUnique(q.email) = NoRow
       THEN /\ cacheMissCount' = cacheMissCount + 1
            /\ Respond(q, 404, ErrorBody("User not found"), "absent")
       ELSE /\ Goto(q, "hSet", findUnique(q.email).id)
            /\ UNCHANGED cacheMissCount
    /\ UNCHANGED <<store, cache, redisUp, requestCount, cacheHitCount,
                   started, populated, pageCache, page, walk>>
    /\ UNCHANGED edgeVars

ByEmailHSet ==
    \E q \in InFlight :
    /\ At(q, "byEmail", "hSet")
    /\ IF redisUp
       THEN /\ cache' = hSet(Key(q.email), FullData(store[q.user]))
            /\ Written(Key(q.email))
            /\ Goto(q, "expire", q.user)
       ELSE /\ Respond(q, 500, InternalError, "cacheError")
            /\ UNCHANGED <<cache, populated>>
    /\ UNCHANGED <<store, redisUp, requestCount, cacheHitCount, cacheMissCount,
                   started, pageCache, page, walk>>
    /\ UNCHANGED edgeVars

ByEmailExpire ==
    \E q \in InFlight :
    /\ At(q, "byEmail", "expire")
    /\ IF redisUp
       THEN /\ cache' = expire(Key(q.email), USER_CACHE_TTL)
            /\ Expiring(Key(q.email))
            /\ cacheMissCount' = cacheMissCount + 1
            /\ Respond(q, 200, ByEmailMissBody(store[q.user]), "store")
       ELSE /\ Respond(q, 500, InternalError, "cacheError")
            /\ UNCHANGED <<cache, populated, cacheMissCount>>
    /\ UNCHANGED <<store, redisUp, requestCount, cacheHitCount, started, pageCache, page, walk>>
    /\ UNCHANGED edgeVars

----------------------------------------------------------------------------
(* Auth service: POST /register and POST /login call the user service *)

AuthRegister(e, p) ==
    /\ Arrives
    /\ IF IsEmail(e) /\ LongEnough(p)
       THEN \* axios.post(`${USER_SERVICE_URL}/users`, { email, password: hashedPassword })
            /\ requestCount' = requestCount + 1
            /\ Admitted("create", "auth", e, Hash(p), p, "cacheGet")
       ELSE /\ Rejected("register", e, p, ZodMessage(IsEmail(e), LongEnough(p), ZOD_MIN))
            /\ UNCHANGED requestCount
    /\ UNCHANGED <<store, cache, redisUp, cacheHitCount, cacheMissCount, populated,
                   pageCache, page, walk>>
    /\ UNCHANGED edgeVars

AuthLogin(e, p) ==
    /\ Arrives
    /\ IF IsEmail(e) /\ LongEnough(p)
       THEN \* axios.get(`${USER_SERVICE_URL}/users/by-email/${email}`)
            /\ requestCount' = requestCount + 1
            /\ Admitted("byEmail", "auth", e, "", p, "cacheGet")
       ELSE /\ Rejected("login", e, p, ZodMessage(IsEmail(e), LongEnough(p), ZOD_MIN))
            /\ UNCHANGED requestCount
    /\ UNCHANGED <<store, cache, redisUp, cacheHitCount, cacheMissCount, populated,
                   pageCache, page, walk>>
    /\ UNCHANGED edgeVars

----------------------------------------------------------------------------
(* Monolith controllers on the same table *)

MonoError == ErrorBody("Internal Server Error")

MonoRegister(e, p) ==
    /\ Arrives
    /\ IF IsEmail(e) /\ LongEnough(p)
       THEN Admitted("monoRegister", "direct", e, "", p, "dbFind")
       ELSE Rejected("monoRegister", e, p, ZodMessage(IsEmail(e), LongEnough(p), MONO_MIN))
    /\ UNCHANGED <<store, cache, redisUp, requestCount, cacheHitCount, cacheMissCount,
                   populated, pageCache, page, walk>>
    /\ UNCHANGED edgeVars

MonoRegisterFind ==
    \E q \in InFlight :
    /\ At(q, "monoRegister", "dbFind")
    /\ IF findUnique(q.email) # NoRow
       THEN Respond(q, 409, ErrorBody("Email already registered"), "found")
       ELSE Goto(q, "dbCreate", 0)
    /\ UNCHANGED <<store, cache, redisUp, requestCount, cacheHitCount, cacheMissCount,
                   started, populated, pageCache, page, walk>>
    /\ UNCHANGED edgeVars

MonoRegisterCreate ==
    \E q \in InFlight :
    /\ At(q, "monoRegister", "dbCreate")
    /\ IF UniqueViolation(q.email)
       THEN /\ Respond(q, 500, MonoError, "unique")
            /\ UNCHANGED store
       ELSE /\ store' = userCreate(q.email, Hash(q.plain))
            /\ Respond(q, 201,
                       [EmptyBody EXCEPT !.message = JStr("User registered successfully")],
                       "created")
    /\ UNCHANGED <<cache, redisUp, requestCount, cacheHitCount, cacheMissCount,
                   started, populated, pageCache, page, walk>>
    /\ UNCHANGED edgeVars

\* login has one await on the table, then bcrypt.compare: one step
MonoLoginReply(e, p) ==
    IF ~(IsEmail(e) /\ LongEnough(p))
    THEN [status |-> 400, body |-> ErrorBody(ZodMessage(IsEmail(e), LongEnough(p), MONO_MIN))]
    ELSE IF findUnique(e) = NoRow
    THEN [status |-> 401, body |-> ErrorBody("Invalid email or password")]
    ELSE IF ~Compare(p, findUnique(e).password)
    THEN [status |-> 401, body |-> ErrorBody("Invalid email or password")]
    ELSE [status |-> 200, body |-> [EmptyBody EXCEPT !.message = JStr("Login successful")]]

MonoLogin(e, p) ==
    /\ started < MaxRequests
    /\ started' = started + 1
    /\ response' = [op |-> "monoLogin", email |-> e, plain |-> p,
                    status |-> MonoLoginReply(e, p).status,
                    body |-> MonoLoginReply(e, p).body, path |-> "store"]
    /\ UNCHANGED <<store, cache, redisUp, reqs, requestCount, cacheHitCount,
                   cacheMissCount, okCount, registered, populated, pageCache, page, walk>>
    /\ UNCHANGED edgeVars

----------------------------------------------------------------------------
(* Monolith: GET /api/users (getUsers) *)

Min(a, b) == IF a < b THEN a ELSE b

\* select: { id, email, createdAt }, as res.json / JSON.stringify writes it
Listed(row) == [id |-> row.id, email |-> row.email,
                createdAt |-> ToISOString(row.createdAt)]

\* a findMany without skip: 1: the scan starts at the cursor row itself
findManyFromCursor(take, cursor) ==
    LET from == IF cursor = 0 THEN 1
                ELSE IF cursor \in 1..Len(store) THEN cursor
                ELSE Len(store) + 1
        to == Min(Len(store), from + take - 1)
    IN  [i \in 1..(IF to >= from THEN to - from + 1 ELSE 0) |-> Listed(store[from + i - 1])]

\* prisma.user.findMany({ take, skip: 1, cursor: { id }, orderBy: { id: 'asc' } });
\* cursor 0 stands for no cursor. The scan starts at the cursor row and skips it;
\* with no such row the scan is empty.
findMany(take, cursor) ==
    LET from == IF cursor = 0 THEN 1
                ELSE IF cursor \in 1..Len(store) THEN cursor + 1
                ELSE Len(store) + 1
        to == Min(Len(store), from + take - 1)
    IN  [i \in 1..(IF to >= from THEN to - from + 1 ELSE 0) |-> Listed(store[from + i - 1])]

NoPage == [users |-> <<>>, nextCursor |-> -1]

\* parseInt(req.query.take, 10) || 10; t = 0 stands for an absent or zero take
TakeOf(t) == IF t = 0 THEN DEFAULT_TAKE ELSE t

\* a cache key that leaves the cursor out
CacheKeyWithoutCursor(take, cursor) == <<take, 0>>

\* `users:${take}:${cursor || 0}`
CacheKey(take, cursor) == <<take, cursor>>

\* users.pop() when users.length > take: nextCursor is the popped row's id
Trimmed(users, take) ==
    IF Len(users) > take
    THEN [users |-> SubSeq(users, 1, Len(users) - 1), nextCursor |-> users[Len(users)].id]
    ELSE [users |-> users, nextCursor |-> 0]

\* the page getUsers computes from the table (nextCursor 0 stands for null)
ScanPage(take, cursor) == Trimmed(findMany(take + 1, cursor), take)

\* the body getUsers answers with: the cached one when there is one
getUsersBody(t, c) ==
    IF pageCache[CacheKey(TakeOf(t), c)] # NoPage
    THEN pageCache[CacheKey(TakeOf(t), c)]
    ELSE ScanPage(TakeOf(t), c)

Takes == (1..MaxTake) \cup {DEFAULT_TAKE}
PageKeys == Takes \X (0..MaxId)

NoWalk == [state |-> "idle", t |-> 0, cursor |-> 0, seen |-> <<>>]

\* a client asks for the first page with ?take=t
WalkStart(t) ==
    /\ walk.state # "walking"
    /\ walk' = [state |-> "walking", t |-> t, cursor |-> 0, seen |-> <<>>]
    /\ response' = NoResponse
    /\ UNCHANGED <<store, cache, redisUp, reqs, requestCount, cacheHitCount,
                   cacheMissCount, started, okCount, registered, populated,
                   pageCache, page>>
    /\ UNCHANGED edgeVars

\* getUsers for the walking client's next call, ?take=t&cursor=c
GetUsers ==
    /\ walk.state = "walking"
    /\ IF redisUp
       THEN /\ page' = getUsersBody(walk.t, walk.cursor)
            /\ pageCache' = [pageCache EXCEPT
                                ![CacheKey(TakeOf(walk.t), walk.cursor)] =
                                    getUsersBody(walk.t, walk.cursor)]
            /\ response' = [NoResponse EXCEPT !.op = "getUsers", !.status = 200,
                                !.path = IF pageCache[CacheKey(TakeOf(walk.t), walk.cursor)] # NoPage
                                         THEN "hit" ELSE "store"]
            /\ walk' = [walk EXCEPT
                    !.seen = @ \o [i \in 1..Len(page'.users) |-> page'.users[i].id],
                    !.cursor = page'.nextCursor,
                    !.state = IF page'.nextCursor = 0 THEN "done" ELSE "walking"]
       ELSE \* redisClient.get rejects: next(err), the error handler answers 500
            /\ response' = [NoResponse EXCEPT !.op = "getUsers", !.status = 500,
                                              !.body = MonoError, !.path = "cacheError"]
            /\ UNCHANGED <<pageCache, page, walk>>
    /\ UNCHANGED <<store, cache, redisUp, reqs, requestCount, cacheHitCount,
                   cacheMissCount, started, okCount, registered, populated>>
    /\ UNCHANGED edgeVars

----------------------------------------------------------------------------
(* The environment *)

\* USER_CACHE_TTL seconds pass: every key that has a TTL expires
TimePasses ==
    /\ cache' = [k \in DOMAIN cache |-> IF cache[k].ttl >= 0 THEN NoEntry ELSE cache[k]]
    /\ populated' = [k \in DOMAIN populated |->
                        IF populated[k] \in {"fresh", "refreshed"} THEN "elapsed"
                        ELSE populated[k]]
    /\ pageCache' = [k \in DOMAIN pageCache |-> NoPage]
    /\ response' = NoResponse
    /\ UNCHANGED <<store, redisUp, reqs, requestCount, cacheHitCount, cacheMissCount,
                   started, okCount, registered, page, walk>>
    /\ UNCHANGED edgeVars

RedisFails ==
    /\ redisUp
    /\ redisUp' = FALSE
    /\ response' = NoResponse
    /\ UNCHANGED <<store, cache, reqs, requestCount, cacheHitCount, cacheMissCount,
                   started, okCount, registered, populated, pageCache, page, walk>>
    /\ UNCHANGED edgeVars

RedisRecovers ==
    /\ ~redisUp
    /\ redisUp' = TRUE
    /\ response' = NoResponse
    /\ UNCHANGED <<store, cache, reqs, requestCount, cacheHitCount, cacheMissCount,
                   started, okCount, registered, populated, pageCache, page, walk>>
    /\ UNCHANGED edgeVars

----------------------------------------------------------------------------
(* The API gateway *)

ClockStep == 8               \* hours in one step of the model's clock
GLOBAL_MAX == 10000          \* globalLimiter: max
UPSTREAM_TIMEOUT == 10000    \* axios timeout of the Railway register and login, ms

\* a request path as its segments: /api/users/by-email/a@x.com is
\* <<"api", "users", "by-email", "a@x.com">>
GwPaths ==
    { <<"health">>, <<"api", "register">>, <<"api", "login">>,
      <<"api", "users", "by-email", "a@x.com">>, <<"api", "auth", "login">>,
      <<"api", "usersX">>, <<"nope">> }
GwMethods == {"GET", "POST"}

\* app.use(mount, ..): the path starts with the mount's segments
Mounted(path, mount) ==
    Len(path) >= Len(mount) /\ SubSeq(path, 1, Len(mount)) = mount

GwRoute(name, target, kind, timeout, onError) ==
    [name |-> name, target |-> target, kind |-> kind, timeout |-> timeout,
     onError |-> onError]

\* a gateway whose first route is a proxy to the auth service mounted on /api
RouteApiToAuthFirst(build, m, p) ==
    IF m = "GET" /\ p = <<"health">>
    THEN GwRoute("health", "both", "axios", 0, FALSE)
    ELSE IF Mounted(p, <<"api">>)
    THEN GwRoute("auth", "auth", "proxy", 0, TRUE)
    ELSE GwRoute("notFound", "none", "none", 0, FALSE)

\* the first handler registered for the method and path; services/api-gateway
\* registers /health, the /api/auth and /api/users proxies, then the legacy
\* register and login proxies; the Railway gateway registers /health, register
\* and login done with axios, then the /api/users proxy; '*' comes last
Route(build, m, p) ==
    IF m = "GET" /\ p = <<"health">>
    THEN GwRoute("health", "both", "axios", 0, FALSE)
    ELSE IF build = "gateway"
    THEN IF Mounted(p, <<"api", "auth">>)
         THEN GwRoute("auth", "auth", "proxy", 0, TRUE)
         ELSE IF Mounted(p, <<"api", "users">>)
         THEN GwRoute("users", "user", "proxy", 0, TRUE)
         ELSE IF m = "POST" /\ p = <<"api", "register">>
         THEN GwRoute("register", "auth", "proxy", 0, FALSE)
         ELSE IF m = "POST" /\ p = <<"api", "login">>
         THEN GwRoute("login", "auth", "proxy", 0, FALSE)
         ELSE GwRoute("notFound", "none", "none", 0, FALSE)
    ELSE IF m = "POST" /\ p = <<"api", "register">>
         THEN GwRoute("register", "auth", "axios", UPSTREAM_TIMEOUT, FALSE)
         ELSE IF m = "POST" /\ p = <<"api", "login">>
         THEN GwRoute("login", "auth", "axios", UPSTREAM_TIMEOUT, FALSE)
         ELSE IF Mounted(p, <<"api", "users">>)
         THEN GwRoute("users", "user", "proxy", 0, TRUE)
         ELSE GwRoute("notFound", "none", "none", 0, FALSE)

GwNoResponse ==
    [m |-> "", p |-> <<>>, route |-> "", status |-> 0, error |-> "", health |-> "",
     text |-> FALSE, upStatus |-> 0, upBody |-> "", body |-> "", authSeen |-> "", userSeen |-> "", authCalls |-> 0, userCalls |-> 0]

\* a health handler that sends both probes at once
GwPendingBothProbes(m, p, rt) ==
    [m |-> m, p |-> p, route |-> rt.name, kind |-> rt.kind, timeout |-> rt.timeout,
     onError |-> rt.onError,
     pc |-> IF rt.name = "health" THEN "authHealth" ELSE "upstream",
     authCalls |-> IF rt.target \in {"auth", "both"} THEN 1 ELSE 0,
     userCalls |-> IF rt.target \in {"user", "both"} THEN 1 ELSE 0,
     authSeen |-> "", userSeen |-> "", overdue |-> FALSE]

\* a request handed to its route: the handler has made its first upstream call
GwPending(m, p, rt) ==
    [m |-> m, p |-> p, route |-> rt.name, kind |-> rt.kind, timeout |-> rt.timeout,
     onError |-> rt.onError,
     pc |-> IF rt.name = "health" THEN "authHealth" ELSE "upstream",
     authCalls |-> IF rt.target \in {"auth", "both"} THEN 1 ELSE 0,
     userCalls |-> IF rt.target = "user" THEN 1 ELSE 0,
     authSeen |-> "", userSeen |-> "", overdue |-> FALSE]

GwWaiting == BagToSet(gwReqs)

\* res.status(status).json(..) ends the request r; text says that the body is
\* not JSON but the message as plain text
GwRespond(r, status, error, health, text) ==
    /\ gwLast' = [m |-> r.m, p |-> r.p, route |-> r.route, status |-> status,
                  error |-> error, health |-> health, text |-> text,
                  upStatus |-> 0, upBody |-> "", body |-> "",
                  authSeen |-> r.authSeen, userSeen |-> r.userSeen,
                  authCalls |-> r.authCalls, userCalls |-> r.userCalls]
    /\ gwReqs' = gwReqs (-) SetToBag({r})

\* res.status(status).json(data) after the upstream has answered with upStatus
\* and upBody
GwPassOn(r, status, data, upStatus, upBody) ==
    /\ gwLast' = [m |-> r.m, p |-> r.p, route |-> r.route, status |-> status,
                  error |-> "", health |-> "", text |-> FALSE,
                  upStatus |-> upStatus, upBody |-> upBody, body |-> data,
                  authSeen |-> r.authSeen, userSeen |-> r.userSeen,
                  authCalls |-> r.authCalls, userCalls |-> r.userCalls]
    /\ gwReqs' = gwReqs (-) SetToBag({r})

\* the statuses an upstream answers with
UpstreamStatuses == {200, 201, 400, 401, 409, 500}

\* the bodies an upstream answers with
UpstreamBodies == {"{token,user}", "{error}"}

\* a gateway whose routes are registered before the rate limiter: the request
\* reaches its route whatever the limiter counts
GwReceiveRoutedFirst(m, p) ==
    /\ gwStarted < MaxRequests
    /\ BagCardinality(gwReqs) < MaxInFlight
    /\ gwStarted' = gwStarted + 1
    /\ gwHits' = gwHits + 1
    /\ gwPassed' = gwPassed + 1
    /\ IF Route(gwBuild, m, p).name = "notFound"
       THEN /\ gwLast' = IF gwHits + 1 > GLOBAL_MAX
                         THEN [GwNoResponse EXCEPT !.m = m, !.p = p, !.route = "limited",
                                  !.status = 429, !.text = TRUE,
                             !.error = "Too many requests from this IP"]
                         ELSE [GwNoResponse EXCEPT !.m = m, !.p = p,
                                  !.route = "notFound", !.status = 404,
                                  !.error = "Route not found"]
            /\ UNCHANGED gwReqs
       ELSE /\ gwReqs' = gwReqs (+) SetToBag({GwPending(m, p, Route(gwBuild, m, p))})
            /\ gwLast' = GwNoResponse
    /\ UNCHANGED <<gwBuild, svcVars, tokenVars, sideVars>>

\* the gateway receives a request: the rate limiter, then the first matching route
GwReceive(m, p) ==
    /\ gwStarted < MaxRequests
    /\ BagCardinality(gwReqs) < MaxInFlight
    /\ gwStarted' = gwStarted + 1
    /\ gwHits' = gwHits + 1
    /\ IF gwHits + 1 > GLOBAL_MAX
       THEN /\ gwLast' = [GwNoResponse EXCEPT !.m = m, !.p = p, !.route = "limited",
                             !.status = 429, !.text = TRUE,
                             !.error = "Too many requests from this IP"]
            /\ UNCHANGED <<gwReqs, gwPassed>>
       ELSE /\ gwPassed' = gwPassed + 1
            /\ IF Route(gwBuild, m, p).name = "notFound"
               THEN /\ gwLast' = [GwNoResponse EXCEPT !.m = m, !.p = p,
                                     !.route = "notFound", !.status = 404,
                                     !.error = "Route not found"]
                    /\ UNCHANGED gwReqs
               ELSE /\ gwReqs' = gwReqs (+) SetToBag({GwPending(m, p, Route(gwBuild, m, p))})
                    /\ gwLast' = GwNoResponse
    /\ UNCHANGED <<gwBuild, svcVars, tokenVars, sideVars>>

\* a gateway that answers 503 of its own when the upstream answered an error
GwUpstreamAnswersMasked ==
    \E r \in GwWaiting, st \in UpstreamStatuses, data \in UpstreamBodies :
    /\ r.pc = "upstream"
    /\ IF st >= 400
       THEN GwPassOn(r, 503, "{error}", st, data)
       ELSE GwPassOn(r, st, data, st, data)
    /\ UNCHANGED <<gwBuild, gwHits, gwStarted, gwPassed, svcVars, tokenVars, sideVars>>

\* the upstream answers a proxied call: the proxy middleware pipes the answer
\* through; the axios handlers send response.status and response.data, or for a
\* status outside 2xx error.response.status and error.response.data
GwUpstreamAnswers ==
    \E r \in GwWaiting, st \in UpstreamStatuses, data \in UpstreamBodies :
    /\ r.pc = "upstream"
    /\ GwPassOn(r, st, data, st, data)
    /\ UNCHANGED <<gwBuild, gwHits, gwStarted, gwPassed, svcVars, tokenVars, sideVars>>

\* what the gateway says when the connection to the upstream fails
Unavailable(r) ==
    IF r.route = "register" THEN "Register service unavailable"
    ELSE IF r.route = "login" THEN "Login service unavailable"
    ELSE IF r.route = "auth" THEN "Auth service unavailable"
    ELSE "User service unavailable"

\* the statuses of http-proxy-middleware's own error answer (no onError given)
ProxyErrorStatuses == {500, 504}

\* the connection to the upstream fails
GwUpstreamRefuses ==
    \E r \in GwWaiting :
    /\ r.pc = "upstream" /\ ~r.overdue
    /\ IF r.kind = "axios" \/ r.onError
       THEN GwRespond(r, 503, Unavailable(r), "", FALSE)
       ELSE \E st \in ProxyErrorStatuses :
               GwRespond(r, st, "Error occurred while trying to proxy", "", TRUE)
    /\ UNCHANGED <<gwBuild, gwHits, gwStarted, gwPassed, svcVars, tokenVars, sideVars>>

\* a gateway that calls the upstream again when the call has timed out
GwTimeoutRetries ==
    \E r \in GwWaiting :
    /\ ~r.overdue
    /\ gwReqs' = (gwReqs (-) SetToBag({r})) (+)
                 SetToBag({[r EXCEPT !.overdue = TRUE,
                                     !.authCalls = IF r.userCalls = 0 THEN @ + 1 ELSE @,
                                     !.userCalls = IF r.userCalls = 0 THEN @ ELSE @ + 1]})
    /\ gwLast' = GwNoResponse
    /\ UNCHANGED <<gwBuild, gwHits, gwStarted, gwPassed, svcVars, tokenVars, sideVars>>

\* UPSTREAM_TIMEOUT ms pass without an answer to the call of r: axios with a
\* timeout rejects (no error.response); a call without a timeout goes on waiting
GwTimeoutElapses ==
    \E r \in GwWaiting :
    /\ ~r.overdue
    /\ IF r.timeout > 0
       THEN GwRespond(r, 503, Unavailable(r), "", FALSE)
       ELSE /\ gwReqs' = (gwReqs (-) SetToBag({r})) (+) SetToBag({[r EXCEPT !.overdue = TRUE]})
            /\ gwLast' = GwNoResponse
    /\ UNCHANGED <<gwBuild, gwHits, gwStarted, gwPassed, svcVars, tokenVars, sideVars>>

\* GET /health: the auth service answers { status: 'OK' }; the gateway goes on
\* to ask the user service
GwAuthHealthAnswers ==
    \E r \in GwWaiting :
    /\ r.pc = "authHealth"
    /\ gwReqs' = (gwReqs (-) SetToBag({r})) (+)
                 SetToBag({[r EXCEPT !.pc = "userHealth", !.authSeen = "OK",
                                     !.userCalls = 1, !.overdue = FALSE]})
    /\ gwLast' = GwNoResponse
    /\ UNCHANGED <<gwBuild, gwHits, gwStarted, gwPassed, svcVars, tokenVars, sideVars>>

\* the statuses the user service's /health reports: 200 with 'OK' or 'DEGRADED'
\* (database or Redis down), 503 with 'ERROR'
UserHealthStatuses == {"OK", "DEGRADED", "ERROR"}

\* GET /health: the user service answers; a 503 makes axios throw
GwUserHealthAnswers ==
    \E r \in GwWaiting, h \in UserHealthStatuses :
    /\ r.pc = "userHealth"
    /\ IF h = "ERROR"
       THEN GwRespond(r, 503, "One or more services are down", "ERROR", FALSE)
       ELSE GwRespond([r EXCEPT !.userSeen = h], 200, "", "OK", FALSE)
    /\ UNCHANGED <<gwBuild, gwHits, gwStarted, gwPassed, svcVars, tokenVars, sideVars>>

\* GET /health: the connection to the upstream being asked fails
GwHealthRefused ==
    \E r \in GwWaiting :
    /\ r.pc \in {"authHealth", "userHealth"} /\ ~r.overdue
    /\ GwRespond(r, 503, "One or more services are down", "ERROR", FALSE)
    /\ UNCHANGED <<gwBuild, gwHits, gwStarted, gwPassed, svcVars, tokenVars, sideVars>>

\* the limiter's 15 minute window ends
GwWindowResets ==
    /\ gwHits > 0
    /\ gwHits' = 0
    /\ gwPassed' = 0
    /\ gwLast' = GwNoResponse
    /\ UNCHANGED <<gwBuild, gwReqs, gwStarted, svcVars, tokenVars, sideVars>>

----------------------------------------------------------------------------
(* The auth service: tokens *)

JWT_SECRET == "your-secret-key"
TOKEN_HOURS == 24            \* expiresIn: '24h'

\* the payload of a token issued at hour t
Payload(userId, email, t) ==
    [userId |-> userId, email |-> email, iat |-> t, exp |-> t + TOKEN_HOURS]

\* jwt.sign(payload, secret, { expiresIn: '24h' }) at hour t: the payload with
\* its signature, which is determined by the secret and the payload
JwtSign(userId, email, secret, t) ==
    [payload |-> Payload(userId, email, t),
     sig |-> [key |-> secret, payload |-> Payload(userId, email, t)]]

\* a request body without a token
NoToken == [payload |-> Payload(0, "", 0), sig |-> [key |-> "", payload |-> Payload(0, "", 0)]]

\* a verification that does not look at the expiry
JwtVerifyIgnoringExpiry(token, secret, t) ==
    token.sig = [key |-> secret, payload |-> token.payload]

\* jwt.verify(token, secret) at hour t: the signature is the secret's signature
\* of the payload and the expiry has not been reached
JwtVerify(token, secret, t) ==
    /\ token.sig = [key |-> secret, payload |-> token.payload]
    /\ t < token.payload.exp

NoVerdict ==
    [status |-> 0, valid |-> FALSE, userId |-> 0, email |-> "", error |-> "",
     token |-> NoToken]

\* the user ids tokens are issued for
TokenUsers == 1..2

\* register and login sign a token for the user they answer for
IssueToken(userId, email) ==
    /\ Cardinality(issued) < MaxTokens
    /\ issued' = issued \cup {JwtSign(userId, email, JWT_SECRET, now)}
    /\ verified' = NoVerdict
    /\ UNCHANGED <<now, svcVars, gwVars, sideVars>>

\* tokens the auth service did not issue: an issued payload signed with another
\* secret, and an issued token whose payload names another user
Forged ==
    {[t EXCEPT !.sig.key = "another-key"] : t \in issued}
        \cup {[t EXCEPT !.payload.userId = @ + 1] : t \in issued}

\* POST /verify with body { token }
Verify(token) ==
    /\ verified' =
          IF token = NoToken
          THEN [NoVerdict EXCEPT !.status = 400, !.error = "Token is required"]
          ELSE IF JwtVerify(token, JWT_SECRET, now)
          THEN [NoVerdict EXCEPT !.status = 200, !.valid = TRUE, !.token = token,
                                 !.userId = token.payload.userId,
                                 !.email = token.payload.email]
          ELSE [NoVerdict EXCEPT !.status = 401, !.error = "Invalid token",
                                 !.token = token]
    /\ UNCHANGED <<now, issued, svcVars, gwVars, sideVars>>

\* ClockStep hours pass
ClockTick ==
    /\ now + ClockStep <= MaxClock
    /\ now' = now + ClockStep
    /\ verified' = NoVerdict
    /\ UNCHANGED <<issued, svcVars, gwVars, sideVars>>

----------------------------------------------------------------------------
(* The user service process: its Redis client and its shutdown *)

Stop == -1      \* reconnectStrategy returning false

\* socket.reconnectStrategy: the client calls it after each failed connection
\* attempt with the number of failed attempts before this one, counted from 0
reconnectStrategy(n) ==
    IF n > 10 THEN Stop ELSE Min(n * 100, 3000)

NotCalled == [op |-> "none", outcome |-> "none"]

Alive == proc \notin {"exited", "crashed"}

\* the socket of the connected client breaks: the error event clears isConnected
\* and the client starts over with no failed attempt counted
SocketError ==
    /\ Alive /\ sock = "ready" /\ outages < MaxOutages
    /\ sock' = "failed"
    /\ retries' = 0
    /\ attempts' = <<>>
    /\ isConnected' = FALSE
    /\ redisUp' = FALSE
    /\ outages' = outages + 1
    /\ called' = NotCalled
    /\ UNCHANGED <<delay, proc, dbOpen>>
    /\ UNCHANGED <<store, cache, reqs, response, requestCount, cacheHitCount,
                   cacheMissCount, started, okCount, registered, populated, pageCache,
                   page, walk, gwVars, tokenVars, seedVars, limVars>>

\* after a failed attempt the client asks the strategy: a number is the delay it
\* waits before the next attempt, false closes the client for good
AskStrategy ==
    /\ Alive /\ sock = "failed"
    /\ LET retryIn == reconnectStrategy(retries) IN
        IF retryIn = Stop
        THEN sock' = "closed" /\ UNCHANGED <<retries, delay>>
        ELSE sock' = "waiting" /\ delay' = retryIn /\ retries' = retries + 1
    /\ called' = NotCalled
    /\ UNCHANGED <<isConnected, attempts, outages, proc, dbOpen, svcVars, gwVars, tokenVars, seedVars, limVars>>

\* the delay is over and the attempt connects: the connect event sets isConnected
Reconnects ==
    /\ Alive /\ sock = "waiting"
    /\ attempts' = Append(attempts, delay)
    /\ sock' = "ready"
    /\ isConnected' = TRUE
    /\ redisUp' = TRUE
    /\ called' = NotCalled
    /\ UNCHANGED <<retries, delay, outages, proc, dbOpen>>
    /\ UNCHANGED <<store, cache, reqs, response, requestCount, cacheHitCount,
                   cacheMissCount, started, okCount, registered, populated, pageCache,
                   page, walk, gwVars, tokenVars, seedVars, limVars>>

\* the delay is over and the attempt fails: the error event clears isConnected
ReconnectFails ==
    /\ Alive /\ sock = "waiting"
    /\ attempts' = Append(attempts, delay)
    /\ sock' = "failed"
    /\ isConnected' = FALSE
    /\ called' = NotCalled
    /\ UNCHANGED <<retries, delay, outages, proc, dbOpen, svcVars, gwVars, tokenVars, seedVars, limVars>>

\* a command of the client: with disableOfflineQueue it is rejected at once
\* unless the socket is ready
Rejects == sock # "ready"

\* checkRedisHealth()
CheckRedisHealth ==
    /\ Alive
    /\ called' = [op |-> "checkRedisHealth",
                  outcome |-> IF ~isConnected THEN "false"
                              ELSE IF Rejects THEN "false" ELSE "true"]
    /\ UNCHANGED <<sock, retries, delay, isConnected, attempts, outages, proc, dbOpen,
                   svcVars, gwVars, tokenVars, seedVars, limVars>>

\* hGetAll(key) of the adapter: a rejection is logged and null returned
CallHGetAll(key) ==
    /\ Alive
    /\ called' = [op |-> "hGetAll",
                  outcome |-> IF Rejects THEN "null"
                              ELSE IF IsHit(hGetAll(key)) THEN "hash" ELSE "empty"]
    /\ UNCHANGED <<sock, retries, delay, isConnected, attempts, outages, proc, dbOpen,
                   svcVars, gwVars, tokenVars, seedVars, limVars>>

\* hSet(key, data) of the adapter: a rejection is logged and thrown again
CallHSet(key) ==
    /\ Alive
    /\ IF Rejects
       THEN called' = [op |-> "hSet", outcome |-> "throws"] /\ UNCHANGED cache
       ELSE /\ called' = [op |-> "hSet", outcome |-> "ok"]
            /\ cache' = hSet(key, FullData(Row(1, key, Hash(PwGood))))
    /\ UNCHANGED <<sock, retries, delay, isConnected, attempts, outages, proc, dbOpen>>
    /\ UNCHANGED <<store, redisUp, reqs, response, requestCount, cacheHitCount,
                   cacheMissCount, started, okCount, registered, populated, pageCache,
                   page, walk, gwVars, tokenVars, seedVars, limVars>>

\* expire(key, ttl) of the adapter: a rejection is logged and thrown again
CallExpire(key) ==
    /\ Alive
    /\ IF Rejects
       THEN called' = [op |-> "expire", outcome |-> "throws"] /\ UNCHANGED cache
       ELSE /\ called' = [op |-> "expire", outcome |-> "ok"]
            /\ cache' = expire(key, USER_CACHE_TTL)
    /\ UNCHANGED <<sock, retries, delay, isConnected, attempts, outages, proc, dbOpen>>
    /\ UNCHANGED <<store, redisUp, reqs, response, requestCount, cacheHitCount,
                   cacheMissCount, started, okCount, registered, populated, pageCache,
                   page, walk, gwVars, tokenVars, seedVars, limVars>>

\* SIGTERM or SIGINT arrives: the handler starts with disconnectDB()
Signal(sig) ==
    /\ proc = "running"
    /\ proc' = "disconnectDB"
    /\ called' = [op |-> sig, outcome |-> "none"]
    /\ UNCHANGED <<sock, retries, delay, isConnected, attempts, outages, dbOpen,
                   svcVars, gwVars, tokenVars, seedVars, limVars>>

\* await disconnectDB(): prisma.$disconnect() resolves, or it rejects and the
\* rejection leaves the handler, which has no catch
DisconnectDB ==
    /\ proc = "disconnectDB"
    /\ \/ dbOpen' = FALSE /\ proc' = "disconnectRedis"
       \/ dbOpen' = dbOpen /\ proc' = "rejected"
    /\ called' = [op |-> "disconnectDB",
                  outcome |-> IF proc' = "rejected" THEN "throws" ELSE "ok"]
    /\ UNCHANGED <<sock, retries, delay, isConnected, attempts, outages,
                   svcVars, gwVars, tokenVars, seedVars, limVars>>

\* await disconnectRedis(): quit() closes a ready connection and the end event
\* clears isConnected; on a socket that is not ready the command is rejected,
\* which is logged, and a client that was reconnecting gives up
DisconnectRedis ==
    /\ proc = "disconnectRedis"
    /\ proc' = "exit"
    /\ called' = [op |-> "disconnectRedis",
                  outcome |-> IF Rejects THEN "logged" ELSE "ok"]
    /\ sock' = IF sock = "closed" THEN "closed" ELSE "ended"
    /\ isConnected' = FALSE
    /\ redisUp' = FALSE
    /\ UNCHANGED <<retries, delay, attempts, outages, dbOpen>>
    /\ UNCHANGED <<store, cache, reqs, response, requestCount, cacheHitCount,
                   cacheMissCount, started, okCount, registered, populated, pageCache,
                   page, walk, gwVars, tokenVars, seedVars, limVars>>

\* process.exit(0)
Exit ==
    /\ proc = "exit"
    /\ proc' = "exited"
    /\ called' = NotCalled
    /\ UNCHANGED <<sock, retries, delay, isConnected, attempts, outages, dbOpen,
                   svcVars, gwVars, tokenVars, seedVars, limVars>>

\* the rejected handler: the runtime either ends the process on the unhandled
\* rejection or only warns, and then the process goes on without its handler
UnhandledRejection ==
    /\ proc = "rejected"
    /\ proc' \in {"crashed", "hung"}
    /\ called' = NotCalled
    /\ UNCHANGED <<sock, retries, delay, isConnected, attempts, outages, dbOpen,
                   svcVars, gwVars, tokenVars, seedVars, limVars>>

----------------------------------------------------------------------------
(* The seeder *)

NoFile == [usersSeeded |-> -1, batchesCompleted |-> -1, lastBatchId |-> -1]
Fresh == [usersSeeded |-> 0, batchesCompleted |-> 0, lastBatchId |-> 0]

\* loadProgress(): the parsed file if there is one
loadProgress == IF file # NoFile THEN file ELSE Fresh

GLOBAL_PASSWORD_HASH == Hash(PwGood)

SeedEmail(uniqueId) == "user" \o ToString(uniqueId) \o "@company.com"

\* generateUserBatch(batchSize, batchId): the emails of the batch
generateUserBatch(batchSize, batchId) ==
    [index \in 1..batchSize |-> SeedEmail((batchId * batchSize) + (index - 1) + 1)]

\* the rows of data whose email the table does not hold yet
Missing(data) == SelectSeq(data, LAMBDA e : findUnique(e) = NoRow)

\* a createMany that inserts every row of data
createManyKeepingDuplicates(data) ==
    store \o [i \in 1..Len(data) |-> Row(Len(store) + i, data[i], GLOBAL_PASSWORD_HASH)]

\* prisma.user.createMany({ data, skipDuplicates: true }): the table afterwards
createMany(data) ==
    store \o [i \in 1..Len(Missing(data)) |->
                Row(Len(store) + i, Missing(data)[i], GLOBAL_PASSWORD_HASH)]

\* Math.ceil(CONFIG.TOTAL_USERS / CONFIG.BATCH_SIZE)
totalBatches == (TOTAL_USERS + BATCH_SIZE - 1) \div BATCH_SIZE

\* Math.min(currentBatch + CONFIG.CONCURRENT_BATCHES, totalBatches)
endBatch == Min(currentBatch + CONCURRENT_BATCHES, totalBatches)

notSeeder == <<cache, redisUp, reqs, response, requestCount, cacheHitCount,
               cacheMissCount, started, okCount, registered, populated, pageCache, page,
               walk, gwVars, tokenVars, procVars, limVars>>

\* node seed: new SeedingManager() loads the progress, run() starts from it
SeederStarts ==
    /\ seeder \in {"off", "stopped", "done"} /\ runs < MaxRuns
    /\ runs' = runs + 1
    /\ progress' = loadProgress
    /\ stats' = [totalProcessed |-> loadProgress.usersSeeded,
                 batchesCompleted |-> loadProgress.batchesCompleted,
                 errors |-> 0, duplicatesSkipped |-> 0]
    /\ currentBatch' = loadProgress.lastBatchId
    /\ resumedFrom' = loadProgress.lastBatchId
    /\ pending' = {}
    /\ seeder' = "loop"
    /\ UNCHANGED <<store, file, failed, notSeeder>>

\* while (currentBatch < totalBatches): processConcurrentBatches starts the
\* batches of the round
RoundBegins ==
    /\ seeder = "loop" /\ currentBatch < totalBatches
    /\ pending' = currentBatch..(endBatch - 1)
    /\ seeder' = "round"
    /\ UNCHANGED <<store, file, progress, stats, currentBatch, runs, failed, resumedFrom,
                   notSeeder>>

\* processBatch(batchId): its createMany resolves
BatchInserted(batchId) ==
    /\ seeder = "round" /\ batchId \in pending
    /\ LET userData == generateUserBatch(BATCH_SIZE, batchId)
           count == Len(createMany(userData)) - Len(store) IN
        /\ store' = createMany(userData)
        /\ stats' = [stats EXCEPT !.totalProcessed = @ + count,
                                  !.duplicatesSkipped = @ + (BATCH_SIZE - count)]
    /\ pending' = pending \ {batchId}
    /\ UNCHANGED <<file, progress, seeder, currentBatch, runs, failed, resumedFrom,
                   notSeeder>>

\* processBatch(batchId): its createMany rejects; the error is counted and the
\* batch given up
BatchFails(batchId) ==
    /\ seeder = "round" /\ batchId \in pending
    /\ stats' = [stats EXCEPT !.errors = @ + 1]
    /\ failed' = TRUE
    /\ pending' = pending \ {batchId}
    /\ UNCHANGED <<store, file, progress, seeder, currentBatch, runs, resumedFrom,
                   notSeeder>>

\* all batches of the round are settled: the progress moves on and is saved at
\* every CHECKPOINT_INTERVAL batches
RoundEnds ==
    /\ seeder = "round" /\ pending = {}
    /\ LET done == progress.batchesCompleted + (endBatch - currentBatch)
           saves == done % CHECKPOINT_INTERVAL = 0 IN
        /\ progress' = [usersSeeded |-> IF saves THEN stats.totalProcessed
                                        ELSE progress.usersSeeded,
                        batchesCompleted |-> done,
                        lastBatchId |-> endBatch]
        /\ stats' = [stats EXCEPT !.batchesCompleted = done]
        /\ file' = IF saves THEN progress' ELSE file
    /\ currentBatch' = endBatch
    /\ seeder' = "loop"
    /\ UNCHANGED <<store, pending, runs, failed, resumedFrom, notSeeder>>

\* the loop is over: the final save
FinalSave ==
    /\ seeder = "loop" /\ ~(currentBatch < totalBatches)
    /\ progress' = [progress EXCEPT !.usersSeeded = stats.totalProcessed]
    /\ file' = progress'
    /\ seeder' = "saved"
    /\ UNCHANGED <<store, stats, currentBatch, pending, runs, failed, resumedFrom,
                   notSeeder>>

\* the progress file is removed and the process ends
CleanUp ==
    /\ seeder = "saved"
    /\ file' = NoFile
    /\ seeder' = "done"
    /\ UNCHANGED <<store, progress, stats, currentBatch, pending, runs, failed,
                   resumedFrom, notSeeder>>

\* SIGINT or SIGTERM: the handler logs and calls process.exit(0); the inserts
\* still outstanding are not awaited
SeederSignal(sig) ==
    /\ seeder \in {"loop", "round", "saved"}
    /\ seeder' = "stopped"
    /\ pending' = {}
    /\ UNCHANGED <<store, file, progress, stats, currentBatch, runs, failed, resumedFrom,
                   notSeeder>>

----------------------------------------------------------------------------
(* The rate limiters of the gateway and of the auth service, with several clients *)

AUTH_MAX == 1000

Clients == {"A", "B"}

\* the addresses the auth service sees requests come from: req.ip is the peer
\* of the connection, which for a proxied request is the gateway
AuthPeers == Clients \cup {"gateway"}

NoLimited == [client |-> "", via |-> "", status |-> 0, by |-> ""]

LimAnswer(c, via, status, by) ==
    limLast' = [client |-> c, via |-> via, status |-> status, by |-> by]

\* the key of the auth service's limiter for a request of client c
AuthKey(c, via) == IF via = "gateway" THEN "gateway" ELSE c

\* client c sends a request to the gateway: the gateway's limiter counts it
\* under c; a register or login that passes is sent on to the auth service,
\* whose limiter counts it too and whose 429 the gateway passes on
LimGatewayRequest(c, toAuth) ==
    /\ limStarted < MaxRequests
    /\ limStarted' = limStarted + 1
    /\ sent' = [sent EXCEPT ![c] = @ + 1]
    /\ limHits' = [limHits EXCEPT ![c] = @ + 1]
    /\ IF limHits[c] + 1 > GLOBAL_MAX
       THEN LimAnswer(c, "gateway", 429, "gateway") /\ UNCHANGED authHits
       ELSE IF ~toAuth
       THEN LimAnswer(c, "gateway", 200, "") /\ UNCHANGED authHits
       ELSE /\ authHits' = [authHits EXCEPT ![AuthKey(c, "gateway")] = @ + 1]
            /\ IF authHits[AuthKey(c, "gateway")] + 1 > AUTH_MAX
               THEN LimAnswer(c, "gateway", 429, "auth")
               ELSE LimAnswer(c, "gateway", 200, "")
    /\ UNCHANGED <<svcVars, gwVars, tokenVars, procVars, seedVars>>

\* client c sends a request to the auth service itself
LimDirectRequest(c) ==
    /\ limStarted < MaxRequests
    /\ limStarted' = limStarted + 1
    /\ sent' = [sent EXCEPT ![c] = @ + 1]
    /\ authHits' = [authHits EXCEPT ![AuthKey(c, "direct")] = @ + 1]
    /\ IF authHits[AuthKey(c, "direct")] + 1 > AUTH_MAX
       THEN LimAnswer(c, "direct", 429, "auth")
       ELSE LimAnswer(c, "direct", 200, "")
    /\ UNCHANGED <<limHits, svcVars, gwVars, tokenVars, procVars, seedVars>>

\* the 15 minute window of the limiters ends
LimWindowResets ==
    /\ \E c \in Clients : sent[c] > 0
    /\ limHits' = [c \in Clients |-> 0]
    /\ authHits' = [k \in AuthPeers |-> 0]
    /\ sent' = [c \in Clients |-> 0]
    /\ limLast' = NoLimited
    /\ UNCHANGED <<limStarted, svcVars, gwVars, tokenVars, procVars, seedVars>>

----------------------------------------------------------------------------
(* Specifications *)

\* the rows the seeder writes: user<i>@company.com, one hash for all
Seeded(n) == [i \in 1..n |-> Row(i, "user" \o ToString(i) \o "@company.com", Hash(PwGood))]

InitServices ==
    /\ cache = [k \in Emails |-> NoEntry]
    /\ redisUp = TRUE
    /\ reqs = EmptyBag
    /\ response = NoResponse
    /\ requestCount = 0
    /\ cacheHitCount = 0
    /\ cacheMissCount = 0
    /\ started = 0
    /\ okCount = [e \in Emails |-> 0]
    /\ registered = {}
    /\ populated = [k \in Emails |-> "none"]
    /\ pageCache = [k \in PageKeys |-> NoPage]
    /\ page = NoPage
    /\ walk = NoWalk

\* the gateway before its first request
GwIdle ==
    /\ gwBuild = "railway"
    /\ gwHits = 0
    /\ gwReqs = EmptyBag
    /\ gwLast = GwNoResponse
    /\ gwStarted = 0
    /\ gwPassed = 0

\* the auth service before it has issued a token
TokenIdle ==
    /\ now = 0
    /\ issued = {}
    /\ verified = NoVerdict

\* the user service process after startup: the Redis client connected
ProcIdle ==
    /\ sock = "ready"
    /\ retries = 0
    /\ delay = 0
    /\ isConnected = TRUE
    /\ attempts = <<>>
    /\ outages = 0
    /\ called = NotCalled
    /\ proc = "running"
    /\ dbOpen = TRUE

\* the seeder before its first run: no progress file
SeedIdle ==
    /\ file = NoFile
    /\ progress = Fresh
    /\ stats = [totalProcessed |-> 0, batchesCompleted |-> 0, errors |-> 0,
                duplicatesSkipped |-> 0]
    /\ seeder = "off"
    /\ currentBatch = 0
    /\ pending = {}
    /\ runs = 0
    /\ failed = FALSE
    /\ resumedFrom = 0

\* the limiters at the start of a window
LimIdle ==
    /\ limHits = [c \in Clients |-> 0]
    /\ authHits = [k \in AuthPeers |-> 0]
    /\ sent = [c \in Clients |-> 0]
    /\ limStarted = 0
    /\ limLast = NoLimited

InitCommon == InitServices /\ GwIdle /\ TokenIdle /\ ProcIdle /\ SeedIdle /\ LimIdle

\* the services on an empty table
Init == InitCommon /\ store = <<>>

\* the monolith on a seeded table
InitList == InitCommon /\ \E n \in 0..MaxSeed : store = Seeded(n)

RegisterPasswords == {PwGood, PwShort}
LoginPasswords == {PwGood, PwWrong, PwShort}
CreatePasswords == {Hash(PwGood), PwShort}

Next ==
    \/ \E e \in Emails, p \in CreatePasswords : PostUsers(e, p)
    \/ CreateCacheGet
    \/ CreateDbFind
    \/ CreateHSetOld
    \/ CreateExpireOld
    \/ CreateDbInsert
    \/ CreateHSetNew
    \/ CreateExpireNew
    \/ \E e \in Emails : GetCheckEmail(e)
    \/ CheckEmailCacheGet
    \/ CheckEmailDbFind
    \/ CheckEmailHSet
    \/ CheckEmailExpire
    \/ \E e \in Emails : GetByEmail(e)
    \/ ByEmailCacheGet
    \/ ByEmailDbFind
    \/ ByEmailHSet
    \/ ByEmailExpire
    \/ \E e \in Emails, p \in RegisterPasswords : AuthRegister(e, p)
    \/ \E e \in Emails, p \in LoginPasswords : AuthLogin(e, p)
    \/ TimePasses
    \/ RedisFails
    \/ RedisRecovers

Spec == Init /\ [][Next]_vars

\* every writer of the User table: the user service's create (called directly
\* and through the auth service's register) and the monolith's register
NextShared ==
    \/ \E e \in Emails, p \in CreatePasswords : PostUsers(e, p)
    \/ \E e \in Emails, p \in RegisterPasswords : AuthRegister(e, p)
    \/ CreateCacheGet
    \/ CreateDbFind
    \/ CreateHSetOld
    \/ CreateExpireOld
    \/ CreateDbInsert
    \/ CreateHSetNew
    \/ CreateExpireNew
    \/ \E e \in Emails, p \in RegisterPasswords : MonoRegister(e, p)
    \/ MonoRegisterFind
    \/ MonoRegisterCreate
    \/ \E e \in Emails, p \in LoginPasswords : MonoLogin(e, p)
    \/ TimePasses
    \/ RedisFails
    \/ RedisRecovers

SpecShared == Init /\ [][NextShared]_vars

\* the monolith's listing, walked over a seeded table
NextList ==
    \/ \E t \in 0..MaxTake : WalkStart(t)
    \/ GetUsers
    \/ TimePasses
    \/ RedisFails
    \/ RedisRecovers

SpecList == InitList /\ [][NextList]_vars

\* the monolith's listing while its register inserts rows into the same table
\* (Redis answers throughout; SpecList has the outages)
NextListLive ==
    \/ \E t \in 0..MaxTake : WalkStart(t)
    \/ GetUsers
    \/ \E e \in ValidEmails : MonoRegister(e, PwGood)
    \/ MonoRegisterFind
    \/ MonoRegisterCreate
    \/ TimePasses

\* a table seeded with up to one page more than the largest take
InitListLive == InitCommon /\ \E n \in 0..(MaxTake + 1) : store = Seeded(n)

SpecListLive == InitListLive /\ [][NextListLive]_vars

\* the gateway with a client that is fresh in its window or one request short
\* of the limiter's cap
InitGateway ==
    /\ InitServices /\ store = <<>> /\ TokenIdle /\ ProcIdle /\ SeedIdle /\ LimIdle
    /\ gwBuild \in {"gateway", "railway"}
    /\ gwHits \in {0, GLOBAL_MAX - 1}
    /\ gwPassed = gwHits
    /\ gwReqs = EmptyBag
    /\ gwLast = GwNoResponse
    /\ gwStarted = 0

NextGateway ==
    \/ \E m \in GwMethods, p \in GwPaths : GwReceive(m, p)
    \/ GwUpstreamAnswers
    \/ GwUpstreamRefuses
    \/ GwTimeoutElapses
    \/ GwAuthHealthAnswers
    \/ GwUserHealthAnswers
    \/ GwHealthRefused
    \/ GwWindowResets

SpecGateway == InitGateway /\ [][NextGateway]_vars

\* the auth service issuing and verifying tokens while time passes
NextToken ==
    \/ \E u \in TokenUsers, e \in ValidEmails : IssueToken(u, e)
    \/ \E t \in issued \cup Forged \cup {NoToken} : Verify(t)
    \/ ClockTick

SpecToken == Init /\ [][NextToken]_vars

\* the user service process: its Redis client losing and regaining the
\* connection, the adapter being called, and the shutdown on a signal
NextProcess ==
    \/ SocketError
    \/ AskStrategy
    \/ Reconnects
    \/ ReconnectFails
    \/ CheckRedisHealth
    \/ \E e \in ValidEmails : CallHGetAll(Key(e))
    \/ \E e \in ValidEmails : CallHSet(Key(e))
    \/ \E e \in ValidEmails : CallExpire(Key(e))
    \/ \E sig \in {"SIGTERM", "SIGINT"} : Signal(sig)
    \/ DisconnectDB
    \/ DisconnectRedis
    \/ Exit
    \/ UnhandledRejection

SpecProcess == Init /\ [][NextProcess]_vars

\* the seeder being run, interrupted and run again
NextSeeder ==
    \/ SeederStarts
    \/ RoundBegins
    \/ \E b \in 0..(totalBatches - 1) : BatchInserted(b)
    \/ \E b \in 0..(totalBatches - 1) : BatchFails(b)
    \/ RoundEnds
    \/ FinalSave
    \/ CleanUp
    \/ \E sig \in {"SIGINT", "SIGTERM"} : SeederSignal(sig)

SpecSeeder == Init /\ [][NextSeeder]_vars

\* the limiters in the middle of a window: client B has sent n requests through
\* the gateway, k of them register or login requests
InitLimiters ==
    /\ InitServices /\ store = <<>> /\ GwIdle /\ TokenIdle /\ ProcIdle /\ SeedIdle
    /\ \E n \in {0, AUTH_MAX - 1, AUTH_MAX, GLOBAL_MAX - 1}, k \in {0, AUTH_MAX - 1, AUTH_MAX} :
          /\ k <= n
          /\ limHits = [c \in Clients |-> IF c = "B" THEN n ELSE 0]
          /\ authHits = [p \in AuthPeers |-> IF p = "gateway" THEN k ELSE 0]
          /\ sent = [c \in Clients |-> IF c = "B" THEN n ELSE 0]
    /\ limStarted = 0
    /\ limLast = NoLimited

NextLimiters ==
    \/ \E c \in Clients, toAuth \in BOOLEAN : LimGatewayRequest(c, toAuth)
    \/ \E c \in Clients : LimDirectRequest(c)
    \/ LimWindowResets

SpecLimiters == InitLimiters /\ [][NextLimiters]_vars

----------------------------------------------------------------------------
(* Claims about the listing *)

Ids(n) == [i \in 1..n |-> i]

\* C1: for a table holding rows 1..N and any take >= 1, the walk from no cursor
\* that feeds each nextCursor into the next call has, when it ends with
\* nextCursor = null, seen every row exactly once in ascending id order.
C1_WalkYieldsEveryRecordOnce ==
    (walk.state = "done" /\ walk.t >= 1) => walk.seen = Ids(Len(store))

\* C10: when a page is followed by more rows, its nextCursor is the id of the
\* last user in the page.
C10_NextCursorIsLastIdOfPage ==
    (page # NoPage /\ page.nextCursor # 0 /\ page.users # <<>>)
        => page.nextCursor = page.users[Len(page.users)].id


\* the rows of a table t with an id above the cursor c, in ascending id order
\* (the table is kept in id order)
After(t, c) == SelectSeq(t, LAMBDA r : r.id > c)

\* what a call with page size take and cursor c is to answer over the table t:
\* the first take rows after the cursor, and the id of the row after them
ExpectedPage(t, take, c) ==
    [users |-> [i \in 1..Min(take, Len(After(t, c))) |-> Listed(After(t, c)[i])],
     nextCursor |-> IF Len(After(t, c)) > take THEN After(t, c)[take + 1].id ELSE 0]

\* a step in which getUsers answers the walking client's call
ListingCall == walk.state = "walking" /\ redisUp /\ response'.op = "getUsers"

\* C11: a call that scans the table answers with the rows that follow the cursor
\* in ascending id order, at most take of them, and with nextCursor the id of the
\* (take+1)-th such row when there is one and null when there is none.
C11_ScanTakePlusOneAndTrim ==
    [][(ListingCall /\ response'.path = "store") =>
         /\ page' = ExpectedPage(store, TakeOf(walk.t), walk.cursor)
         /\ Len(page'.users) <= TakeOf(walk.t)]_vars

\* C11 witness: a call after a cursor has scanned the table and trimmed a row
C11_Witness ==
    /\ response.op = "getUsers" /\ response.path = "store"
    /\ page.users # <<>> /\ page.users[1].id > 1
    /\ page.nextCursor # 0

\* C12 as stated: every listing call answers with a scan of the table as it is
\* during that call, so every row inserted before the call is in its range.
C12_ListingIsNeverCached ==
    [][ListingCall => page' = ExpectedPage(store, TakeOf(walk.t), walk.cursor)]_vars

\* the table as it was when it held n rows (rows are only ever appended)
Earlier(n) == SubSeq(store, 1, n)

\* every cached page is the scan, for its own take and cursor, of the table as
\* it was at some earlier call
CachedPagesAreEarlierScans ==
    \A k \in PageKeys :
        pageCache[k] # NoPage =>
            \E n \in 0..Len(store) : pageCache[k] = ExpectedPage(Earlier(n), k[1], k[2])

\* C12 amended: a listing call answers with the page an earlier call for the same
\* (take, cursor) stored less than 60 s before when there is one, and otherwise
\* with a scan of the table made during the call, which shows every row inserted
\* before the call that lies in the requested range.
C12_ListingIsCachedFor60s ==
    /\ []CachedPagesAreEarlierScans
    /\ [][ListingCall =>
            IF pageCache[CacheKey(TakeOf(walk.t), walk.cursor)] # NoPage
            THEN page' = pageCache[CacheKey(TakeOf(walk.t), walk.cursor)]
            ELSE page' = ExpectedPage(store, TakeOf(walk.t), walk.cursor)]_vars

\* C12 witness: a call answered from the page cache says the listing ends at a
\* row after which another row has been inserted
C12_Witness ==
    /\ response.op = "getUsers" /\ response.path = "hit"
    /\ page.users # <<>> /\ page.nextCursor = 0
    /\ page.users[Len(page.users)].id < Len(store)

----------------------------------------------------------------------------
(* Claims about the writers of the table (under SpecShared) *)

CreateOps == {"create", "register", "monoRegister"}

\* C2: whatever way two or more create calls (POST /users, directly or through
\* the auth service's register, or the monolith's register) for one email
\* interleave, at most one of them is answered 201 and the table never holds two
\* rows with the same email.
C2_AtMostOneCreateSucceeds ==
    /\ \A e \in Emails : okCount[e] <= 1
    /\ \A i, j \in 1..Len(store) : store[i].email = store[j].email => i = j

\* C2 witness: one create was answered 201 and another call for the same email,
\* having passed its existence checks, is about to insert.
C2_Witness ==
    \E q \in InFlight :
        /\ q.pc = "dbCreate"
        /\ okCount[q.email] = 1
        /\ UniqueViolation(q.email)

----------------------------------------------------------------------------
(* Claims about the user service and the auth service (under Spec) *)

\* C3: a create call that fails because its email is already taken (found in the
\* cache, found in the table, or rejected by the table at the insert) is
\* answered 409 'Email already registered', never 500.
C3_DuplicateCreateAnswers409 ==
    (response.op \in {"create", "register"} /\ response.path \in {"hit", "found", "unique"})
        => /\ response.status = 409
           /\ response.body = ErrorBody("Email already registered")

\* C4: once register(email, password) has been answered 201, a login with the
\* same email and password is answered 200 with a token, whatever directory
\* reads came in between (stated for the logins whose cache calls did not fail).
C4_LoginAfterRegisterSucceeds ==
    (/\ response.op = "login"
     /\ response.email \in registered
     /\ response.plain = PwGood
     /\ response.path # "cacheError")
        => response.status = 200 /\ response.body.token # Absent

\* C5: every cache entry that exists holds the id, email, password hash and
\* createdAt of the table's row for that email.
C5_CacheMatchesStore ==
    \A e \in Emails :
        cache[e] # NoEntry =>
            /\ findUnique(e) # NoRow
            /\ cache[e].id = NumToStr(findUnique(e).id)
            /\ cache[e].email = findUnique(e).email
            /\ cache[e].password = findUnique(e).password
            /\ cache[e].createdAt = ToISOString(findUnique(e).createdAt)

\* C6: a cache failure never makes create, check-email or by-email fail: none of
\* them is answered 500 (other than for an insert the table rejected, see C3).
C6_CacheFailureNeverFailsRequest ==
    (response.op \in {"create", "checkEmail", "byEmail"} /\ response.path # "unique")
        => response.status # 500

\* C7: after a create for an email was answered 201, GET /users/by-email for
\* that email is answered 200 with the id and email of the created row.
C7_FindAfterCreate ==
    (response.op = "byEmail" /\ okCount[response.email] > 0)
        => /\ response.status = 200
           /\ response.body.id = JNum(findUnique(response.email).id)
           /\ response.body.email = JStr(response.email)

\* C8: for well-formed input, a login with an email that is not in the table and
\* a login with a wrong password for an email that is get the same answer:
\* 401 'Invalid email or password'.
C8_LoginFailuresIndistinguishable ==
    (/\ response.op = "login"
     /\ IsEmail(response.email) /\ LongEnough(response.plain)
     /\ \/ findUnique(response.email) = NoRow
        \/ ~Compare(response.plain, findUnique(response.email).password))
        => /\ response.status = 401
           /\ response.body = ErrorBody("Invalid email or password")


\* a step that takes the request q out of the state it is in
Steps(q) == CopiesIn(q, reqs') < CopiesIn(q, reqs)

\* C9, the entries: a key whose population is complete (hSet, then expire) is in
\* the cache with the full TTL, so a read right after is a hit; once the TTL has
\* elapsed since then, the key is gone, so the next read is a miss.
C9_Entries ==
    \A k \in Emails :
        /\ populated[k] \in {"fresh", "refreshed"}
              => cache[k] # NoEntry /\ cache[k].ttl = USER_CACHE_TTL
        /\ populated[k] = "elapsed" => cache[k] = NoEntry

\* C9, the reads of by-email while Redis answers: a read of a key that is in the
\* cache is a hit, answered from the cache; a read of a key that is not is a
\* miss that goes on to query the table.
C9_Reads ==
    \A q \in InFlight :
        (q.op = "byEmail" /\ q.pc = "cacheGet" /\ redisUp /\ Steps(q)) =>
            IF cache[Key(q.email)] # NoEntry
            THEN /\ response'.path = "hit"
                 /\ cacheHitCount' = cacheHitCount + 1
                 /\ BagCardinality(reqs') = BagCardinality(reqs) - 1
            ELSE /\ response' = NoResponse
                 /\ CopiesIn([q EXCEPT !.pc = "dbFind"], reqs')
                        = CopiesIn([q EXCEPT !.pc = "dbFind"], reqs) + 1

\* C9, the repopulation by a by-email miss: its hSet writes the table's row under
\* the key and its expire gives the key, when still there, the full TTL again.
C9_Repopulates ==
    \A q \in InFlight :
        /\ (q.op = "byEmail" /\ q.pc = "hSet" /\ redisUp /\ Steps(q)) =>
              /\ cache'[Key(q.email)] # NoEntry
              /\ cache'[Key(q.email)].id = NumToStr(findUnique(q.email).id)
              /\ cache'[Key(q.email)].password = findUnique(q.email).password
        /\ (q.op = "byEmail" /\ q.pc = "expire" /\ redisUp /\ Steps(q)
               /\ cache[Key(q.email)] # NoEntry) =>
              cache'[Key(q.email)].ttl = USER_CACHE_TTL

----------------------------------------------------------------------------
(* Claims about the order of cache and table operations (under Spec) *)

\* the request q as it waited for its cache lookup
AtCacheGet(q) == [q EXCEPT !.pc = "cacheGet", !.user = 0]

\* a request comes to query the table only from its own cache lookup, and that
\* lookup was a miss
C13_ReadsAfterMiss ==
    \A q \in BagToSet(reqs') :
        (q.pc = "dbFind" /\ CopiesIn(q, reqs') > CopiesIn(q, reqs)) =>
            /\ CopiesIn(AtCacheGet(q), reqs) > CopiesIn(AtCacheGet(q), reqs')
            /\ ~IsHit(hGetAll(Key(q.email)))

\* a step that writes a cache entry writes the row the table already holds for
\* the key, and no step writes the table and the cache together
C13_WritesAfterStore ==
    /\ \A k \in Emails :
          (cache'[k] # cache[k] /\ cache'[k] # NoEntry) =>
              /\ findUnique(k) # NoRow
              /\ cache'[k].id = NumToStr(findUnique(k).id)
              /\ cache'[k].email = k
    /\ store' # store => cache' = cache

\* no cache entry without a row in the table
C13_EntriesHaveRows == \A k \in Emails : cache[k] # NoEntry => findUnique(k) # NoRow

\* C13: within one request the table is queried only after the cache lookup for
\* the same key missed, and a cache entry is written only after the table read
\* or insert that produced the row has succeeded: no entry is written for an
\* insert that failed or has not completed.
C13_CacheBeforeStoreWriteAfter ==
    []C13_EntriesHaveRows /\ [][C13_ReadsAfterMiss /\ C13_WritesAfterStore]_vars

\* C13 witness: one create's insert was rejected while the create whose insert
\* succeeded has not yet written the cache
C13_Witness ==
    /\ response.path = "unique"
    /\ \E q \in InFlight :
          q.op = "create" /\ q.pc = "hSetNew" /\ cache[Key(q.email)] = NoEntry

\* C14: a create whose cache lookup finds an entry for the email answers 409
\* 'Email already registered' at once: it neither reads nor writes the table and
\* leaves the cache as it is.
C14_CacheHitCreateTouchesNothing ==
    [][\A q \in InFlight :
          (q.op = "create" /\ q.pc = "cacheGet" /\ Steps(q)
              /\ redisUp /\ cache[Key(q.email)] # NoEntry) =>
              /\ response'.status = 409
              /\ response'.body = ErrorBody("Email already registered")
              /\ BagCardinality(reqs') = BagCardinality(reqs) - 1
              /\ store' = store
              /\ cache' = cache]_vars

\* C14 witness: a create has been answered from the cache
C14_Witness ==
    /\ response.op \in {"create", "register"} /\ response.path = "hit"
    /\ response.status = 409
    /\ cache[Key(response.email)] # NoEntry


----------------------------------------------------------------------------
(* Claims about the gateway (under SpecGateway) *)

\* the routes register, login and the /api/users proxy
ProxiedRoutes == {"register", "login", "users"}

\* C15: no request to register, login or /api/users is left waiting once the
\* upstream has been silent for the timeout, and an upstream that is silent or
\* cannot be connected to is answered with 503.
C15_UpstreamFailureAnswers503 ==
    /\ \A r \in GwWaiting : r.route \in ProxiedRoutes => ~r.overdue
    /\ (gwLast.route \in ProxiedRoutes /\ gwLast.error # "") => gwLast.status = 503

\* the upstream the routing table names for a method and path
TableTarget(m, p) ==
    IF m = "POST" /\ p \in {<<"api", "register">>, <<"api", "login">>} THEN "auth"
    ELSE IF Mounted(p, <<"api", "users">>) THEN "user"
    ELSE "none"

\* the method and path have a route of their own outside the table: the health
\* endpoint, and the /api/auth proxy of services/api-gateway
OtherRoute(m, p) ==
    \/ m = "GET" /\ p = <<"health">>
    \/ gwBuild = "gateway" /\ Mounted(p, <<"api", "auth">>)

\* the upstream calls of a request agree with the routing table
CallsFollowTable(r) ==
    /\ TableTarget(r.m, r.p) = "auth" => r.authCalls = 1 /\ r.userCalls = 0
    /\ TableTarget(r.m, r.p) = "user" => r.userCalls = 1 /\ r.authCalls = 0

\* C16: register and login go to the auth service only, paths under /api/users
\* to the user service only, and a request that matches no route is answered
\* 404 'Route not found' without any upstream call.
C16_RoutingFollowsTable ==
    /\ \A r \in GwWaiting :
          /\ CallsFollowTable(r)
          /\ TableTarget(r.m, r.p) # "none" \/ OtherRoute(r.m, r.p)
    /\ (gwLast.status # 0 /\ gwLast.route # "limited") =>
          /\ CallsFollowTable(gwLast)
          /\ (TableTarget(gwLast.m, gwLast.p) = "none" /\ ~OtherRoute(gwLast.m, gwLast.p)) =>
                /\ gwLast.status = 404 /\ gwLast.error = "Route not found"
                /\ gwLast.authCalls = 0 /\ gwLast.userCalls = 0

\* C16 witness: GET /api/register has been answered 404 while a request under
\* /api/users waits for the user service
C16_Witness ==
    /\ gwLast.m = "GET" /\ gwLast.p = <<"api", "register">> /\ gwLast.status = 404
    /\ \E r \in GwWaiting : r.route = "users" /\ r.userCalls = 1

\* C17: the limiter comes before the routes: at most GLOBAL_MAX requests of the
\* client are passed on within a window, and a request the limiter rejects is
\* answered 429 without reaching a route, an upstream or a health probe.
C17_LimiterBeforeRouting ==
    /\ [](/\ gwPassed <= GLOBAL_MAX
          /\ gwLast.route = "limited" =>
                gwLast.status = 429 /\ gwLast.authCalls = 0 /\ gwLast.userCalls = 0)
    /\ [][(gwStarted' # gwStarted /\ gwHits >= GLOBAL_MAX) =>
             /\ gwLast'.route = "limited"
             /\ gwReqs' = gwReqs /\ gwPassed' = gwPassed]_vars

\* C17 witness: the cap has been reached and a request has been rejected
C17_Witness ==
    gwLast.route = "limited" /\ gwPassed = GLOBAL_MAX /\ gwHits > GLOBAL_MAX

\* C18: the health endpoint reports 'OK' exactly when both upstreams reported
\* 'OK'.
C18_HealthOkOnlyIfBothHealthy ==
    (gwLast.route = "health" /\ gwLast.status # 0) =>
        (gwLast.health = "OK" <=> (gwLast.authSeen = "OK" /\ gwLast.userSeen = "OK"))

\* C19: no request makes more than one call to an upstream, whether the call is
\* answered, fails or times out.
C19_NoRetry ==
    /\ \A r \in GwWaiting :
          /\ r.authCalls <= 1 /\ r.userCalls <= 1
          /\ r.route # "health" => r.authCalls + r.userCalls <= 1
    /\ gwLast.authCalls <= 1 /\ gwLast.userCalls <= 1
    /\ gwLast.route # "health" => gwLast.authCalls + gwLast.userCalls <= 1

\* C19 witness: a register or login whose call timed out or failed has been
\* answered 503 after one call
C19_Witness ==
    /\ gwLast.route \in {"register", "login"} /\ gwLast.status = 503
    /\ gwLast.authCalls = 1


----------------------------------------------------------------------------
(* Claims about tokens (under SpecToken) *)

\* what /verify has answered for the token it was given
C20_Verdict ==
    (verified.status # 0 /\ verified.token # NoToken) =>
        IF verified.token \in issued /\ now < verified.token.payload.iat + TOKEN_HOURS
        THEN /\ verified.status = 200 /\ verified.valid
             /\ \E u \in TokenUsers, e \in ValidEmails, t \in 0..now :
                   /\ verified.token = JwtSign(u, e, JWT_SECRET, t)
                   /\ verified.userId = u /\ verified.email = e
        ELSE verified.status = 401 /\ ~verified.valid

\* C20: a token issued by register or login and verified before its expiry
\* (24 h) is answered 200 valid with the userId and email it was issued for; an
\* expired or wrongly signed token is answered 401 invalid; verify calls no
\* other service and changes no state.
C20_VerifyIsStatelessAndExact ==
    /\ []C20_Verdict
    /\ [][verified'.status # 0 => UNCHANGED <<svcVars, gwVars, sideVars, now, issued>>]_vars

\* C20 witness: a token the service issued has been refused because it expired
C20_Witness ==
    /\ verified.status = 401
    /\ verified.token \in issued
    /\ now >= verified.token.payload.exp


----------------------------------------------------------------------------
(* Claims about validation and lookups (under Spec) *)

\* an email that is not well formed, or a password of fewer than 8 characters
BadInput(e, p) == ~IsEmail(e) \/ StrLen(p) < 8

\* C21: a register or login with a malformed email or a password shorter than 8
\* characters is answered 400 with an error message and without a token; the
\* step sends nothing to the user service and leaves the table and the cache
\* as they are, and no such request is ever waiting on the user service.
C21_InvalidInputTouchesNothing ==
    /\ [](\A q \in InFlight : q.via = "auth" => ~BadInput(q.email, q.plain))
    /\ [][(response'.op \in {"register", "login"}
             /\ BadInput(response'.email, response'.plain)) =>
            /\ response'.status = 400
            /\ response'.body.error \notin {Absent, JStr("")}
            /\ response'.body.token = Absent
            /\ reqs' = reqs /\ requestCount' = requestCount
            /\ store' = store /\ cache' = cache]_vars

\* C21 witness: a login with a malformed email has been answered 400 while the
\* table holds a registered user
C21_Witness ==
    /\ response.op = "login" /\ response.status = 400
    /\ ~IsEmail(response.email)
    /\ store # <<>>


\* the email is in neither the cache nor the table
Unknown(e) == findUnique(e) = NoRow /\ cache[Key(e)] = NoEntry

\* C22: by-email answers 404 exactly when the email is in neither the cache nor
\* the table and answers 200 with the record otherwise; check-email of a well
\* formed email that is in neither answers 200 with exists false, not an error.
C22_NotFoundOnlyWhenAbsent ==
    /\ response.op = "byEmail" =>
          IF Unknown(response.email)
          THEN response.status = 404
          ELSE /\ response.status = 200
               /\ response.body.email = JStr(response.email)
               /\ response.body.id = JNum(findUnique(response.email).id)
    /\ (response.op = "checkEmail" /\ IsEmail(response.email)
            /\ Unknown(response.email)) =>
          response.status = 200 /\ response.body.exists = JBool(FALSE)


----------------------------------------------------------------------------
(* Claims about the user service process (under SpecProcess) *)

\* C23: after a connection failure the client makes at most 10 reconnect
\* attempts, the delay before attempt n is min(n * 100, 3000) ms, and after the
\* last attempt it reconnects no more.
C23_TenAttemptsWithBackoff ==
    /\ Len(attempts) <= 10
    /\ \A n \in 1..Len(attempts) : attempts[n] = Min(n * 100, 3000)
    /\ sock = "closed" => ~redisUp /\ ~isConnected

\* C24: once the reconnect attempts are exhausted checkRedisHealth answers
\* false, a get returns a miss and set and expire return without raising.
C24_ExhaustedClientShortCircuits ==
    sock = "closed" =>
        /\ called.op = "checkRedisHealth" => called.outcome = "false"
        /\ called.op = "hGetAll" => called.outcome = "null"
        /\ called.op \in {"hSet", "expire"} => called.outcome # "throws"

\* C26: the process does not end with the Prisma or the Redis connection open,
\* and a handler that has started is not left without reaching its exit.
C26_ShutdownClosesBothAndExits ==
    /\ ~Alive => ~dbOpen /\ sock # "ready"
    /\ proc \notin {"crashed", "hung"}


----------------------------------------------------------------------------
(* Claims about the bodies of error answers (under SpecGateway) *)

\* C25: every error answer of the gateway, the auth service and the user service
\* has a JSON body that consists of one string field, error.
C25_ErrorBodiesAreErrorObjects ==
    /\ (gwLast.status >= 400 /\ gwLast.error # "") =>
            ~gwLast.text /\ gwLast.health = ""
    /\ verified.status >= 400 => verified.error # ""
    /\ response.status >= 400 =>
            /\ response.body.error \notin {Absent, JStr("")}
            /\ \A f \in DOMAIN response.body \ {"error"} : response.body[f] = Absent


----------------------------------------------------------------------------
(* Claims about the metrics counters (under Spec) *)

\* the answer ends a lookup of the user service: check-email, by-email, or the
\* by-email call behind a login
IsLookup(resp) ==
    /\ resp.status # 0
    /\ \/ resp.op \in {"checkEmail", "byEmail"}
       \/ resp.op = "login" /\ resp.path # "invalid"

CountersUnchanged ==
    cacheHitCount' = cacheHitCount /\ cacheMissCount' = cacheMissCount

CountedWithinRequests == cacheHitCount + cacheMissCount <= requestCount

\* C29 as stated: every completed check-email or by-email request increases
\* exactly one of the two counters by one, the hit counter exactly when it was
\* served from the cache; no other step changes them; hits + misses never
\* exceed the requests counted.
C29_EveryLookupCountsOnce ==
    /\ []CountedWithinRequests
    /\ [][IF IsLookup(response')
          THEN IF response'.path = "hit"
               THEN cacheHitCount' = cacheHitCount + 1 /\ cacheMissCount' = cacheMissCount
               ELSE cacheMissCount' = cacheMissCount + 1 /\ cacheHitCount' = cacheHitCount
          ELSE CountersUnchanged]_vars

\* C29: a check-email or by-email request answered from the cache increases the
\* hit counter by one, one answered from the table (found or not) the miss
\* counter by one, one answered 400 or 500 neither; create and every other step
\* change neither; hits + misses never exceed the requests counted.
C29_AnsweredLookupsCountOnce ==
    /\ []CountedWithinRequests
    /\ [][IF IsLookup(response') /\ response'.path = "hit"
          THEN cacheHitCount' = cacheHitCount + 1 /\ cacheMissCount' = cacheMissCount
          ELSE IF IsLookup(response') /\ response'.path \in {"absent", "store"}
          THEN cacheMissCount' = cacheMissCount + 1 /\ cacheHitCount' = cacheHitCount
          ELSE CountersUnchanged]_vars

C29_Witness ==
    /\ response.op = "checkEmail" /\ response.status = 400
    /\ cacheHitCount = 1 /\ cacheMissCount = 0
    /\ requestCount = 3


----------------------------------------------------------------------------
(* Claims about the probes of the gateway's health check (under SpecGateway) *)

\* C30 as stated: the two probes are sent together, so whenever the auth probe
\* of a health check has been sent the user service probe has been sent too.
C30_ProbesAreConcurrent ==
    /\ \A r \in GwWaiting : r.route = "health" => r.userCalls = r.authCalls
    /\ gwLast.route = "health" => gwLast.userCalls = gwLast.authCalls

\* C30: the probes are sent one after the other: the user service probe is sent
\* only when the auth probe has been answered OK, so while the auth probe is
\* outstanding, and after it has failed, no user service probe has been sent.
C30_ProbesAreSequential ==
    /\ \A r \in GwWaiting : r.route = "health" =>
            /\ r.authCalls = 1
            /\ r.userCalls = (IF r.authSeen = "OK" THEN 1 ELSE 0)
            /\ r.pc = "authHealth" <=> r.authSeen = ""
    /\ gwLast.route = "health" =>
            /\ gwLast.authCalls = 1
            /\ gwLast.userCalls = (IF gwLast.authSeen = "OK" THEN 1 ELSE 0)

C30_Witness ==
    /\ gwLast.route = "health" /\ gwLast.status = 503
    /\ gwLast.authCalls = 1 /\ gwLast.userCalls = 0
    /\ \E r \in GwWaiting : r.route = "health" /\ r.pc = "userHealth"


----------------------------------------------------------------------------
(* Claims about the seeder (under SpecSeeder) *)

\* the rows of the table with the email of seeded user i
RowsOf(i) == {n \in 1..Len(store) : store[n].email = SeedEmail(i)}

\* C27: when a run completes and no batch insert has failed in this or an
\* earlier run, however often the seeder was stopped and started again from its
\* progress file, the table holds each of user1..userTOTAL_USERS exactly once.
C27_ResumedSeedingIsComplete ==
    (seeder \in {"saved", "done"} /\ ~failed) =>
        \A i \in 1..TOTAL_USERS : Cardinality(RowsOf(i)) = 1

C27_Witness ==
    /\ seeder = "done" /\ ~failed
    /\ runs > 1 /\ resumedFrom > 0
    /\ stats.duplicatesSkipped > 0

\* C28: a seeder stopped by SIGINT or SIGTERM has left its current progress
\* (lastBatchId, batchesCompleted, usersSeeded) in the progress file.
C28_SignalSavesProgress ==
    seeder = "stopped" =>
        file = [usersSeeded |-> stats.totalProcessed,
                batchesCompleted |-> progress.batchesCompleted,
                lastBatchId |-> progress.lastBatchId]


----------------------------------------------------------------------------
(* Claims about proxied answers (under SpecGateway) *)

\* C31: an answer of the auth service to a proxied register or login is returned
\* with its status and its body unchanged, and a 503 of the gateway's own is
\* returned only when no answer of the upstream was received.
C31_UpstreamAnswerPassedUnchanged ==
    gwLast.route \in {"register", "login"} =>
        /\ gwLast.upStatus # 0 =>
                /\ gwLast.status = gwLast.upStatus
                /\ gwLast.body = gwLast.upBody
                /\ gwLast.error = "" /\ ~gwLast.text
        /\ (gwLast.status = 503 /\ gwLast.error # "") => gwLast.upStatus = 0

C31_Witness ==
    /\ gwLast.route = "register" /\ gwBuild = "railway"
    /\ gwLast.upStatus = 409 /\ gwLast.status = 409
    /\ gwLast.body = "{error}"


----------------------------------------------------------------------------
(* Claims about the limiters (under SpecLimiters) *)

\* C32: a request is answered with a rate-limit failure only when the client
\* that sent it has itself sent more requests in this window than the cap of
\* the limiter that rejects it, also when it reaches the auth service's
\* limiter through the gateway.
C32_LimitIsPerClient ==
    limLast.status = 429 =>
        sent[limLast.client] >
            (IF limLast.by = "auth" THEN AUTH_MAX ELSE GLOBAL_MAX)


----------------------------------------------------------------------------
(* Claims about what the answers disclose (under Spec) *)

\* the values of the fields of a body
Disclosed(body) == {body[f] : f \in DOMAIN body}

StoredHashes == {JStr(store[i].password) : i \in 1..Len(store)}

\* C33: no answer of register, login, create, check-email or by-email, all of
\* which the gateway passes on to its clients, carries a password hash that is
\* stored in the table.
C33_NoAnswerCarriesAHash ==
    response.status # 0 => Disclosed(response.body) \cap StoredHashes = {}


\* C34: an answer of check-email or by-email that is served from the cache has
\* the status and the body that the same request gets from the table as it is.
C34_HitAnswersLikeMiss ==
    (response.path = "hit" /\ response.op \in {"checkEmail", "byEmail"}) =>
        /\ response.status = 200
        /\ findUnique(response.email) # NoRow
        /\ response.body =
             IF response.op = "byEmail"
             THEN ByEmailMissBody(findUnique(response.email))
             ELSE CheckEmailMissBody(findUnique(response.email))


----------------------------------------------------------------------------
(* Claims about the cache entries (under Spec) *)

\* a request has written key k and has its expire still to come
BetweenSetAndExpire(k) ==
    \E q \in InFlight : Key(q.email) = k /\ q.pc \in {"expire", "expireOld", "expireNew"}

\* C35: an entry that is in the cache, and that no request is about to put an
\* expiry on, carries an expiry of at most USER_CACHE_TTL seconds.
C35_EveryEntryExpires ==
    \A k \in DOMAIN cache :
        (cache[k] # NoEntry /\ ~BetweenSetAndExpire(k)) =>
            cache[k].ttl \in 0..USER_CACHE_TTL


\* every entry is the entry of a row of the table, under that row's email
EntriesAreOfRows ==
    \A k \in DOMAIN cache :
        cache[k] # NoEntry =>
            /\ findUnique(k) # NoRow
            /\ cache[k].email = k
            /\ cache[k].id = NumToStr(findUnique(k).id)

\* C36: every cache entry user:email:<e> is the entry of a row with email e; a
\* lookup that finds no row leaves the cache as it is; a create that is
\* answered from the cache is a create of an email the table holds.
C36_EntriesOnlyForStoredEmails ==
    /\ []EntriesAreOfRows
    /\ [](response.path = "hit" => findUnique(response.email) # NoRow)
    /\ [][response'.path = "absent" => cache' = cache]_vars

C36_Witness ==
    /\ response.op = "create" /\ response.path = "hit" /\ response.status = 409
    /\ requestCount = 3 /\ cacheMissCount = 1

\* the answer carries a token signed for the row the table holds under its email
TokenOfStoredUser ==
    /\ findUnique(response.email) # NoRow
    /\ response.body.token = <<"jwt", ToString(findUnique(response.email).id), response.email>>

\* C37: an answer of register or login carries a token only when it is the 201
\* of a register whose row the directory has just created, or the 200 of a login
\* whose password matches the stored hash; the token names a row of the table,
\* with that row's id, and no other answer of register or login carries a token.
C37_TokenOnlyForStoredUser ==
    response.op \in {"register", "login"} =>
        IF response.body.token = Absent
        THEN response.status \notin {200, 201}
        ELSE /\ TokenOfStoredUser
             /\ response.op = "register" =>
                    response.status = 201 /\ response.path = "created"
             /\ response.op = "login" =>
                    /\ response.status = 200
                    /\ Compare(response.plain, findUnique(response.email).password)

C37_Witness ==
    /\ response.op = "login" /\ response.status = 200
    /\ response.body.token # Absent
    /\ response.email \in registered
    /\ response.path = "hit"


\* C38: when a run has reported success and removed the progress file, the
\* table holds a row for each of user1..userTOTAL_USERS: every batch id in
\* 0..totalBatches-1 has been inserted.
C38_SuccessMeansEveryBatchInserted ==
    (seeder = "done" /\ file = NoFile) =>
        \A b \in 0..(totalBatches - 1) :
            \A i \in (b * BATCH_SIZE + 1)..((b + 1) * BATCH_SIZE) : RowsOf(i) # {}

====
